---- MODULE Spec2Model ----
(***************************************************************************)
(* The portfolio site's scripts. The 3D showcase viewer of js/showcase.js: *)
(* ShowcaseViewer instances, the viewers registry, the                     *)
(* IntersectionObserver callback that starts and stops render loops, and   *)
(* the debounced window resize handler. The GitHub project cards and their *)
(* sessionStorage cache, the project filter, the mobile menu of            *)
(* js/navigation.js and the contact form's submit listener.                *)
(*                                                                         *)
(* The specifications share the state:                                     *)
(*   Spec          the page's render loops as the script runs them:        *)
(*                 initShowcase, the observer callback, animation frames   *)
(*                 and the outcomes of the model loads;                    *)
(*   SpecResize    the page's debounced resize handler, with time;         *)
(*   SpecApi       the public methods of ShowcaseViewer called in any      *)
(*                 order on a constructed instance, one call per task;     *)
(*   SpecGate      the observer callback delivered entries for a card that *)
(*                 has no instance in the registry, among entries for a    *)
(*                 card that has one;                                      *)
(*   SpecReentrant SpecApi's render loop with the frame callback split at  *)
(*                 the points where controls.update() and                  *)
(*                 renderer.render() hand control to listeners, which may  *)
(*                 call stop();                                            *)
(*   SpecLoop      SpecReentrant with no end to the frame handles and a    *)
(*                 fair window, for the liveness of the render loop;       *)
(*   SpecShape     one instance without a model file, of any ordinal       *)
(*                 index, for its placeholder;                             *)
(*   SpecScale     one instance with a model file of a known bounding box; *)
(*   SpecGitHub    a tab session loading documents that fetch the          *)
(*                 repositories, with the session's clock and requests     *)
(*                 that end;                                               *)
(*   SpecProjects  the projects page: the fetch and the filter buttons;    *)
(*   SpecNav       the mobile menu: clicks, resizes and the resize timer;  *)
(*   SpecForm      the contact form: input, submit events, the requests'   *)
(*                 outcomes and the status timer.                          *)
(* The showcase specifications leave the site's state empty, and the       *)
(* others the showcase's.                                                  *)
(***************************************************************************)
EXTENDS Integers, Sequences, FiniteSets, TLC

\* ---------------------------------------------------------------- bounds
NumModels == 2        \* entries of showcaseModels built by the page (Spec)
MaxRafId == 3         \* requestAnimationFrame handles handed out
MaxTimerId == 2       \* setTimeout handles handed out
MaxEntries == 2       \* entries in one IntersectionObserver batch
MaxDispose == 2       \* dispose() calls per instance
MaxIndex == 5         \* ordinal index a caller constructs an instance with
TickMs == 125         \* granularity of the passage of time
MaxRepos == 2         \* repositories in one response of the GitHub API
MaxGrids == 2         \* .projects-grid containers of a document
MaxClock == 4         \* steps of the session's clock
MaxStatic == 1        \* .project-card elements in a document's markup
CacheTickMs == 100000 \* granularity of the session's clock
MaxSubmits == 2       \* contact-form submissions that reach the network

\* ------------------------------------------------------ program constants
ResizeDelay == 250    \* setTimeout(..., 250) of _initResizeHandler
PlaceholderKinds == 3 \* this._index % 3 of _renderPlaceholder
TargetSize == 2       \* 2.0 / maxDimension of loadModel
cacheTtl == 300000    \* 5 * 60 * 1000
MobileBreakpoint == 768 \* window.innerWidth > 768 of initMobileMenu
FeaturedLimit == 3    \* slice(0, 3) of initGitHubProjects

Null == 0
NoPath == "null"
StlPath == "model.stl"
FilePaths == {NoPath, StlPath}

\* The STL files a configuration may name, each with the size (x, y, z) of
\* the bounding box of the geometry the loader parses from it.
StlGeometry ==
    (StlPath :> <<4, 2, 1>>) @@ ("bar.stl" :> <<1, 3, 2>>)
    @@ ("cube.stl" :> <<1, 1, 1>>) @@ ("plate.stl" :> <<2, 8, 0>>)
Colors == {"#5eadb5", "#94a3b8"}
InitialSize == <<400, 200>>
Sizes == {InitialSize, <<300, 300>>}

VARIABLES
    showcaseModels,  \* the configuration list
    objs,            \* the ShowcaseViewer objects, by allocation number
    viewers,         \* the registry: the objects pushed, in order
    rafCallbacks,    \* the window's list of animation frame callbacks
    nextRafId,       \* the next requestAnimationFrame handle
    timers,          \* the window's list of active timers
    nextTimerId,     \* the next setTimeout handle
    resizeTimeout,   \* the closure variable of _initResizeHandler
    containerSize,   \* clientWidth, clientHeight of the canvas containers
    loadingEl,       \* per card: the .showcase-loading element
    phase,           \* "loading" before DOMContentLoaded, then "ready"
    frame,           \* the frame callback in execution (SpecReentrant)
    elapsed,         \* ms since the last resize event (capped), -1 if none
    burstPasses,     \* resize passes fired since the current burst began
    burstEvents,     \* resize events of the current burst
    obs,             \* per card: what an instrumented harness observes
    lastOp,          \* the task that produced the current state
    sessionStorage,  \* the tab's sessionStorage: key -> stored entry
    now,             \* Date.now(), in ms since the session began
    gitCall,         \* the document's call of initGitHubProjects()
    projectsDom,     \* the document's project grids and card elements
    projectFilter,   \* the filter buttons and the closure of their listeners
    navMenu,         \* the mobile menu: toggle button, menu, resize timer
    contactForm      \* the contact form, its button, status and submissions

\* the state of the showcase page
ViewerVars ==
    <<showcaseModels, objs, viewers, rafCallbacks, nextRafId, timers,
      nextTimerId, resizeTimeout, containerSize, loadingEl, phase, frame,
      elapsed, burstPasses, burstEvents, obs>>

\* the state of the other pages' scripts
SiteVars ==
    <<sessionStorage, now, gitCall, projectsDom, projectFilter, navMenu,
      contactForm>>

vars == <<ViewerVars, lastOp, SiteVars>>

\* ------------------------------------------------------------- helpers
RECURSIVE GCD(_, _)
GCD(a, b) == IF b = 0 THEN a ELSE GCD(b, a % b)

\* width / height as the fraction in lowest terms
Ratio(size) ==
    LET g == GCD(size[1], size[2])
    IN  <<size[1] \div g, size[2] \div g>>

Min(a, b) == IF a < b THEN a ELSE b

\* ------------------------------------------------- ShowcaseViewer (class)
\* constructor(canvas, config, index)
ShowcaseViewer(canvas, config, index) ==
    [canvas |-> canvas, config |-> config, index |-> index,
     scene |-> [exists |-> FALSE, meshes |-> <<>>],
     camera |-> [exists |-> FALSE, aspect |-> <<0, 0>>],
     renderer |-> [exists |-> FALSE, size |-> <<0, 0>>, disposed |-> 0],
     controls |-> [exists |-> FALSE, disposed |-> 0],
     animationId |-> Null, isActive |-> FALSE, isInitialized |-> FALSE,
     load |-> "none"]

\* new THREE.Mesh(geometry, material), with its uniform scale as a fraction
\* and the dispose() calls each received
Mesh(kind) ==
    [kind |-> kind, scale |-> <<1, 1>>,
     geometryDisposed |-> 0, materialDisposed |-> 0]

\* A heap h gathers what the methods read and write: the objects, the
\* registry, the window's frame callbacks, the DOM, and what an instrumented
\* scheduler and renderer observe of each instance:
\*   rendered, resized   render() and handleResize() calls of the last step
\*   skipped             entries for the card that the observer callback
\*                       passed over in the last step
\*   renderedAfterStop   a render of the last step came after stop() had
\*                       returned and before any later start()
\*   stopRet             stop() has returned and start() was not called since
\*   everActive          _isActive has been true at some time
\*   lastSeen            isIntersecting of the card's last processed entry
\*   fault               a method threw
\*   loader              how the STL loader's promise settled, if it did
\*   observed            observer.observe(card) was called
\*   initCalls, loadCalls  calls of initScene() and of loadModel()
\*   loaderCalls         calls of the STL loader's loadAsync()
\*   loadEarly           loadModel() was called before initScene() returned
\*   early               start(), stop() or handleResize() was called before
\*                       initScene() returned
Heap ==
    [objs |-> objs, viewers |-> viewers, raf |-> rafCallbacks,
     nextId |-> nextRafId,
     size |-> containerSize, dom |-> loadingEl,
     obs |-> [c \in DOMAIN obs |->
                [obs[c] EXCEPT !.rendered = 0, !.resized = 0,
                            !.skipped = 0,
                            !.renderedAfterStop = FALSE]]]

\* The handles of requestAnimationFrame are compared, never computed with,
\* so a heap means the same when the handles in use are renamed in order:
\* the scheduled ones to 1, 2, ..., and a handle an object still holds of a
\* callback that ran or was cancelled to the number after them.
scheduledIds(h) == {c.id : c \in h.raf}

rank(h, id) == Cardinality({i \in scheduledIds(h) : i <= id})

renumbered(h) ==
    LET n == Cardinality(scheduledIds(h))
        held == {h.objs[p].animationId : p \in DOMAIN h.objs} \ {Null}
        gone == held \ scheduledIds(h)
    IN  [h EXCEPT
            !.raf = {[id |-> rank(h, c.id), viewer |-> c.viewer] : c \in h.raf},
            !.objs = [p \in DOMAIN h.objs |->
                        [h.objs[p] EXCEPT !.animationId =
                            IF h.objs[p].animationId = Null THEN Null
                            ELSE IF h.objs[p].animationId \in gone THEN n + 1
                            ELSE rank(h, h.objs[p].animationId)]],
            !.nextId = IF gone = {} THEN n + 1 ELSE n + 2]

\* an uncaught TypeError on instance p
Throw(h, p) == [h EXCEPT !.obs[p].fault = TRUE]

\* a caller calls start(), stop() or handleResize() on instance p
called(h, p) == [h EXCEPT !.obs[p].early = @ \/ ~h.objs[p].isInitialized]

\* initScene()
initScene(h, p) ==
    [h EXCEPT
        !.objs[p].scene = [exists |-> TRUE, meshes |-> <<>>],
        !.objs[p].camera = [exists |-> TRUE, aspect |-> Ratio(h.size)],
        !.objs[p].renderer =
            [exists |-> TRUE, size |-> h.size, disposed |-> 0],
        !.objs[p].controls = [exists |-> TRUE, disposed |-> 0],
        !.objs[p].isInitialized = TRUE,
        !.obs[p].initCalls = @ + 1]

\* this._scene.add(mesh)
sceneAdd(h, p, mesh) ==
    IF ~h.objs[p].scene.exists THEN Throw(h, p)
    ELSE [h EXCEPT !.objs[p].scene.meshes = Append(@, mesh)]

\* _renderPlaceholder(): the mutant chooses between two shapes only
placeholderKindOfTwo(index) ==
    CASE index % 2 = 0 -> "icosahedron"
      [] OTHER -> "torusKnot"

\* _renderPlaceholder(): the shape is chosen by index % 3
placeholderKind(index) ==
    CASE index % PlaceholderKinds = 0 -> "icosahedron"
      [] index % PlaceholderKinds = 1 -> "torusKnot"
      [] OTHER -> "octahedron"

renderPlaceholder(h, p) ==
    sceneAdd(h, p, Mesh(placeholderKind(h.objs[p].index)))

\* _renderErrorState(): the mutant adds the error mesh to a scene that the
\* instances share, the one of the first instance registered
renderErrorStateSharedScene(h, p) ==
    LET h1 == sceneAdd(h, h.viewers[1], Mesh("error"))
        card == h.objs[p].canvas
    IN  IF h1.obs[p].fault THEN h1
        ELSE [h1 EXCEPT !.dom[card] = [@ EXCEPT !.error = TRUE,
                                                !.text = "Failed to load model."]]

\* _renderErrorState(): the error mesh, then the card's loading overlay
renderErrorState(h, p) ==
    LET h1 == sceneAdd(h, p, Mesh("error"))
        card == h.objs[p].canvas
    IN  IF h1.obs[p].fault THEN h1
        ELSE [h1 EXCEPT !.dom[card] = [@ EXCEPT !.error = TRUE,
                                                !.text = "Failed to load model."]]

\* the .then() callback: the mutant does not test for showcase-error
hideLoadingAlways(h, card) == [h EXCEPT !.dom[card].hidden = TRUE]

\* the .then() callback of _initViewerObserver
hideLoading(h, card) ==
    IF ~h.dom[card].error THEN [h EXCEPT !.dom[card].hidden = TRUE] ELSE h

\* viewer.loadModel().then(...): the callback runs if the promise resolved
loadThen(h, p) ==
    IF h.objs[p].load = "resolved" THEN hideLoading(h, h.objs[p].canvas) ELSE h

\* the promise of an async function whose body ran to its end on h from h0:
\* rejected if the body threw, resolved otherwise
settled(h0, h, p) ==
    [h EXCEPT !.objs[p].load =
        IF h.obs[p].fault /\ ~h0.obs[p].fault THEN "rejected" ELSE "resolved"]

\* loadModel() up to its first suspension point: the mutant hands every
\* configuration to the loader
loadModelAlwaysLoads(h, p) ==
    LET h0 == [h EXCEPT !.obs[p].loadCalls = @ + 1,
                        !.obs[p].loadEarly = @ \/ ~h.objs[p].isInitialized]
    IN  [h0 EXCEPT !.objs[p].load = "pending", !.obs[p].loaderCalls = @ + 1]

\* loadModel() up to its first suspension point
loadModel(h, p) ==
    LET h0 == [h EXCEPT !.obs[p].loadCalls = @ + 1,
                        !.obs[p].loadEarly = @ \/ ~h.objs[p].isInitialized]
    IN  IF h.objs[p].config.filePath = NoPath
        THEN settled(h0, renderPlaceholder(h0, p), p)
        ELSE [h0 EXCEPT !.objs[p].load = "pending",
                        !.obs[p].loaderCalls = @ + 1]

\* Math.max(size.x, size.y, size.z)
maxDimension(size) ==
    CHOOSE m \in {size[1], size[2], size[3]} :
        \A i \in 1..3 : size[i] <= m

\* the mesh of loadModel(): the mutant scales by the width of the box
modelMeshByWidth(size) ==
    [Mesh("model") EXCEPT !.scale = Ratio(<<TargetSize, size[1]>>)]

\* the mesh of loadModel(): scale = 2.0 / maxDimension, mesh.scale.setScalar
modelMesh(size) ==
    [Mesh("model") EXCEPT !.scale = Ratio(<<TargetSize, maxDimension(size)>>)]

\* loadModel() resumed with the geometry: the mutant marks the instance
\* active once the mesh is in the scene
loadModelResolvedActivates(h, p) ==
    LET h0 == [h EXCEPT !.obs[p].loader = "fulfilled"]
    IN  [settled(h0, sceneAdd(h0, p, Mesh("model")), p)
            EXCEPT !.objs[p].isActive = TRUE]

\* loadModel() resumed with the geometry; a throw in the try block is caught
loadModelResolved(h, p) ==
    LET h0 == [h EXCEPT !.obs[p].loader = "fulfilled"]
        size == StlGeometry[h.objs[p].config.filePath]
        h1 == sceneAdd(h0, p, modelMesh(size))
    IN  IF h1.obs[p].fault /\ ~h0.obs[p].fault
        THEN settled(h0, renderErrorState(h0, p), p)
        ELSE settled(h0, h1, p)

\* loadModel() resumed in its catch block: the mutant adds the error mesh
\* to a scene that keeps a mesh of the model
loadModelRejectedKeepsModel(h, p) ==
    LET h0 == [h EXCEPT !.obs[p].loader = "rejected"]
    IN  settled(h0, renderErrorState(sceneAdd(h0, p, Mesh("model")), p), p)

\* loadModel() resumed in its catch block
loadModelRejected(h, p) ==
    LET h0 == [h EXCEPT !.obs[p].loader = "rejected"]
    IN  settled(h0, renderErrorState(h0, p), p)

\* _animate(), first half: the mutant forgets requestAnimationFrame
animateScheduleNone(h, p) == h

\* _animate(), first half: the mutant does not keep the handle
animateScheduleUntracked(h, p) ==
    [h EXCEPT !.raf = @ \cup {[id |-> h.nextId, viewer |-> p]},
              !.nextId = @ + 1]

\* _animate(), first half: the guard and requestAnimationFrame
animateSchedule(h, p) ==
    [h EXCEPT !.raf = @ \cup {[id |-> h.nextId, viewer |-> p]},
              !.nextId = @ + 1,
              !.objs[p].animationId = h.nextId]

\* _animate(), second half: controls.update() and renderer.render()
animateRender(h, p) ==
    IF ~h.objs[p].controls.exists THEN Throw(h, p)
    ELSE [h EXCEPT !.obs[p].rendered = @ + 1,
                   !.obs[p].renderedAfterStop = @ \/ h.obs[p].stopRet]

\* _animate()
animate(h, p) ==
    IF ~h.objs[p].isActive THEN h
    ELSE animateRender(animateSchedule(h, p), p)

\* start(): the mutant drops the guard on _isActive
startUnguarded(h, p) ==
    LET h0 == [called(h, p) EXCEPT !.obs[p].stopRet = FALSE]
    IN  IF ~h.objs[p].isInitialized THEN h0
        ELSE animate([h0 EXCEPT !.objs[p].isActive = TRUE,
                                !.obs[p].everActive = TRUE], p)

\* start(): the mutant drops the guard on _isInitialized
startUninitialized(h, p) ==
    LET h0 == [called(h, p) EXCEPT !.obs[p].stopRet = FALSE]
    IN  IF h.objs[p].isActive THEN h0
        ELSE animate([h0 EXCEPT !.objs[p].isActive = TRUE,
                                !.obs[p].everActive = TRUE], p)

\* start()
start(h, p) ==
    LET h0 == [called(h, p) EXCEPT !.obs[p].stopRet = FALSE]
    IN  IF h.objs[p].isActive \/ ~h.objs[p].isInitialized THEN h0
        ELSE animate([h0 EXCEPT !.objs[p].isActive = TRUE,
                                !.obs[p].everActive = TRUE], p)

\* stop(): the mutant forgets cancelAnimationFrame
stopNoCancel(h, p) ==
    [called(h, p) EXCEPT !.objs[p].isActive = FALSE,
              !.objs[p].animationId = Null,
              !.obs[p].stopRet = TRUE]

\* stop(): the mutant cancels the frame and leaves _isActive set
stopKeepsActive(h, p) ==
    LET v == h.objs[p]
        h1 == [called(h, p) EXCEPT !.obs[p].stopRet = TRUE]
    IN  IF v.animationId # Null
        THEN [h1 EXCEPT !.raf = {c \in @ : c.id # v.animationId},
                        !.objs[p].animationId = Null]
        ELSE h1

\* stop(): the mutant toggles the flag instead of clearing it
stopToggle(h, p) ==
    LET v == h.objs[p]
        h1 == [called(h, p) EXCEPT !.objs[p].isActive = ~v.isActive,
                        !.obs[p].stopRet = TRUE]
    IN  IF v.animationId # Null
        THEN [h1 EXCEPT !.raf = {c \in @ : c.id # v.animationId},
                        !.objs[p].animationId = Null]
        ELSE h1

\* stop()
stop(h, p) ==
    LET v == h.objs[p]
        h1 == [called(h, p) EXCEPT !.objs[p].isActive = FALSE,
                                   !.obs[p].stopRet = TRUE]
    IN  IF v.animationId # Null
        THEN [h1 EXCEPT !.raf = {c \in @ : c.id # v.animationId},
                        !.objs[p].animationId = Null]
        ELSE h1

\* handleResize(): the mutant drops the guard on _isInitialized
handleResizeUnguarded(h, p) ==
    LET h0 == [called(h, p) EXCEPT !.obs[p].resized = @ + 1]
    IN  IF ~h.objs[p].camera.exists THEN Throw(h0, p)
        ELSE [h0 EXCEPT !.objs[p].camera.aspect = Ratio(h.size),
                        !.objs[p].renderer.size = h.size]

\* handleResize()
handleResize(h, p) ==
    LET h0 == [called(h, p) EXCEPT !.obs[p].resized = @ + 1]
    IN  IF ~h.objs[p].isInitialized THEN h0
        ELSE [h0 EXCEPT !.objs[p].camera.aspect = Ratio(h.size),
                        !.objs[p].renderer.size = h.size]

\* dispose(): stop(), then the releases
dispose(h, p) ==
    LET h1 == stop(h, p)
        v == h1.objs[p]
        h2 == IF v.controls.exists
              THEN [h1 EXCEPT !.objs[p].controls.disposed = @ + 1] ELSE h1
        h3 == IF v.renderer.exists
              THEN [h2 EXCEPT !.objs[p].renderer.disposed = @ + 1] ELSE h2
    IN  IF v.scene.exists
        THEN [h3 EXCEPT !.objs[p].scene.meshes =
                 [k \in DOMAIN @ |->
                    [@[k] EXCEPT !.geometryDisposed = @ + 1,
                                 !.materialDisposed = @ + 1]]]
        ELSE h3

\* ------------------------------------------------------- page functions
\* _createShowcaseCard(config, index): the k-th card of the grid is built
\* for index k - 1 and carries it as its data-viewer-index
dataViewerIndex(card) == card - 1

\* one iteration of the cards.forEach: the mutant puts the new instance at
\* the front of the registry
createViewerUnshift(h, k) ==
    LET p == k
        v == ShowcaseViewer(k, showcaseModels[k], k - 1)
        h1 == [h EXCEPT !.objs = (p :> v) @@ @]
        h2 == loadModel(initScene(h1, p), p)
    IN  [h2 EXCEPT !.viewers = <<p>> \o @, !.obs[k].observed = TRUE]

\* one iteration of the cards.forEach: the mutant calls loadModel() on the
\* new instance before initScene()
createViewerLoadFirst(h, k) ==
    LET p == k
        v == ShowcaseViewer(k, showcaseModels[k], k - 1)
        h1 == [h EXCEPT !.objs = (p :> v) @@ @]
        h2 == initScene(loadModel(h1, p), p)
    IN  [h2 EXCEPT !.viewers = Append(@, p), !.obs[k].observed = TRUE]

\* one iteration of the cards.forEach of _initViewerObserver
createViewer(h, k) ==
    LET p == k
        v == ShowcaseViewer(k, showcaseModels[k], k - 1)
        h1 == [h EXCEPT !.objs = (p :> v) @@ @]
        h2 == loadModel(initScene(h1, p), p)
    IN  [h2 EXCEPT !.viewers = Append(@, p), !.obs[k].observed = TRUE]

RECURSIVE createViewers(_, _)
createViewers(h, k) ==
    IF k > Len(showcaseModels) THEN h
    ELSE createViewers(createViewer(h, k), k + 1)

\* the promise reactions that run when the DOMContentLoaded handler returns
RECURSIVE settleLoads(_, _)
settleLoads(h, k) ==
    IF k > Len(h.viewers) THEN h
    ELSE settleLoads(loadThen(h, h.viewers[k]), k + 1)

\* the observer's entries.forEach body: the mutant lost its else branch
observerEntryNoStop(h, entry) ==
    LET index == dataViewerIndex(entry.target)
    IN  IF index + 1 > Len(h.viewers)
        THEN [h EXCEPT !.obs[entry.target].skipped = @ + 1]
        ELSE LET p == h.viewers[index + 1]
                 h1 == [h EXCEPT !.obs[entry.target].lastSeen =
                            IF entry.isIntersecting THEN "in" ELSE "out"]
             IN  IF entry.isIntersecting THEN start(h1, p) ELSE h1

\* the body of the observer's entries.forEach for one entry
observerEntry(h, entry) ==
    LET index == dataViewerIndex(entry.target)
    IN  IF index + 1 > Len(h.viewers)
        THEN [h EXCEPT !.obs[entry.target].skipped = @ + 1]
        ELSE LET p == h.viewers[index + 1]
                 h1 == [h EXCEPT !.obs[entry.target].lastSeen =
                            IF entry.isIntersecting THEN "in" ELSE "out"]
             IN  IF entry.isIntersecting THEN start(h1, p) ELSE stop(h1, p)

\* the observer callback: the mutant calls a method of the undefined viewer
\* of a card that has no instance, and the throw ends the forEach
RECURSIVE observerCallbackThrows(_, _)
observerCallbackThrows(h, entries) ==
    IF entries = <<>> THEN h
    ELSE IF dataViewerIndex(Head(entries).target) + 1 > Len(h.viewers)
         THEN Throw(h, Head(entries).target)
         ELSE observerCallbackThrows(observerEntry(h, Head(entries)),
                                     Tail(entries))

\* the observer callback: entries.forEach(...)
RECURSIVE observerCallback(_, _)
observerCallback(h, entries) ==
    IF entries = <<>> THEN h
    ELSE observerCallback(observerEntry(h, Head(entries)), Tail(entries))

\* viewers.forEach(viewer => viewer.handleResize())
RECURSIVE resizePass(_, _)
resizePass(h, k) ==
    IF k > Len(h.viewers) THEN h
    ELSE resizePass(handleResize(h, h.viewers[k]), k + 1)

\* the resize listener: the mutant forgets clearTimeout
resizeListenerNoClear(ts, id) == ts \cup {[id |-> id, remaining |-> ResizeDelay]}

\* the resize listener: clearTimeout(resizeTimeout), then setTimeout(..., 250)
resizeListener(ts, id) ==
    {t \in ts : t.id # resizeTimeout}
        \cup {[id |-> id, remaining |-> ResizeDelay]}

\* ------------------------------------------------------------- plumbing
\* The task's heap becomes the state.  The specification of the endless
\* render loop renames the handles when the counter has passed MaxRafId,
\* which keeps them within the bound; the other specifications hand out no
\* handle past it.
Commit(h) ==
    LET g == IF phase = "loop" /\ h.nextId > MaxRafId
             THEN renumbered(h) ELSE h
    IN  /\ objs' = g.objs
        /\ viewers' = g.viewers
        /\ rafCallbacks' = g.raf
        /\ nextRafId' = g.nextId
        /\ loadingEl' = g.dom
        /\ obs' = g.obs
        /\ g.nextId <= MaxRafId + 1

\* lastOp names the task just run; for a method called by a caller of the
\* class it also names the instance and the flags the call found.
NoPre ==
    [isActive |-> FALSE, isInitialized |-> FALSE, stopRet |-> FALSE,
     everActive |-> FALSE]

Pre(p) ==
    [isActive |-> objs[p].isActive, isInitialized |-> objs[p].isInitialized,
     stopRet |-> obs[p].stopRet, everActive |-> obs[p].everActive]

Op(name, p) ==
    [op |-> name, v |-> p,
     pre |-> IF p \in DOMAIN objs THEN Pre(p) ELSE NoPre]

\* a task of the page: it names the instance whose callback ran, or the
\* card the observer's entries were for (the last of them)
PageOp(name, x) == [op |-> name, v |-> x, pre |-> NoPre]

Idle == [viewer |-> 0, pc |-> "idle", stopped |-> FALSE,
         renderedAfterStop |-> FALSE]

Cards == DOMAIN obs

\* The observer queues an entry for a target when its isIntersecting
\* changes, so the entries of one target alternate.  Instances share no
\* state, so a batch that names several targets acts as one batch per
\* target, delivered in turn.
Batch(target, first, n) ==
    [i \in 1..n |-> [target |-> target,
                     isIntersecting |-> IF i % 2 = 1 THEN first ELSE ~first]]

Observed == {c \in Cards : obs[c].observed}

\* the observed cards whose data-viewer-index names no instance
Missing == {c \in Observed : dataViewerIndex(c) + 1 > Len(viewers)}

\* a batch for one card, or an entry for a card without an instance followed
\* by entries for a card that has one
Batches ==
    {Batch(c, b, n) : c \in Observed, b \in BOOLEAN, n \in 1..MaxEntries}
    \cup {<<[target |-> m, isIntersecting |-> x]>> \o Batch(c, b, n) :
             m \in Missing, x \in BOOLEAN, c \in Observed \ Missing,
             b \in BOOLEAN, n \in 1..(MaxEntries - 1)}

NewObs ==
    [rendered |-> 0, resized |-> 0, skipped |-> 0,
     renderedAfterStop |-> FALSE,
     stopRet |-> FALSE, everActive |-> FALSE, fault |-> FALSE,
     lastSeen |-> "none", loader |-> "none", observed |-> FALSE,
     initCalls |-> 0, loadCalls |-> 0, loaderCalls |-> 0,
     loadEarly |-> FALSE, early |-> FALSE]

NewLoadingEl == [hidden |-> FALSE, error |-> FALSE, text |-> "Loading model..."]

TimeVars ==
    <<timers, nextTimerId, resizeTimeout, elapsed, burstPasses, burstEvents>>

\* The showcase page runs none of the other pages' scripts.
NoSite ==
    /\ sessionStorage = <<>>
    /\ now = 0
    /\ gitCall = <<>>
    /\ projectsDom = <<>>
    /\ projectFilter = <<>>
    /\ navMenu = <<>>
    /\ contactForm = <<>>

\* ---------------------------------------------------------------- page
Init ==
    /\ showcaseModels \in [1..NumModels -> [filePath : FilePaths]]
    /\ objs = <<>>
    /\ viewers = <<>>
    /\ rafCallbacks = {}
    /\ nextRafId = 1
    /\ timers = {}
    /\ nextTimerId = 1
    /\ resizeTimeout = Null
    /\ containerSize = InitialSize
    /\ loadingEl = [c \in 1..NumModels |-> NewLoadingEl]
    /\ phase = "loading"
    /\ frame = Idle
    /\ elapsed = -1
    /\ burstPasses = 0
    /\ burstEvents = 0
    /\ obs = [c \in 1..NumModels |-> NewObs]
    /\ lastOp = Op("init", 0)
    /\ NoSite

\* DOMContentLoaded: initShowcase()
InitShowcase ==
    /\ phase = "loading"
    /\ phase' = "ready"
    /\ Commit(settleLoads(createViewers(Heap, 1), 1))
    /\ lastOp' = Op("initShowcase", 0)
    /\ UNCHANGED <<showcaseModels, containerSize, frame, TimeVars, SiteVars>>

\* the IntersectionObserver delivers a batch of entries
ObserverCallback(entries) ==
    /\ phase # "loading"
    /\ frame.pc = "idle"
    /\ Commit(observerCallback(Heap, entries))
    /\ lastOp' = PageOp("observer", entries[Len(entries)].target)
    /\ UNCHANGED <<showcaseModels, containerSize, phase, frame, TimeVars, SiteVars>>

\* the window runs one animation frame callback
AnimationFrame(c) ==
    /\ c \in rafCallbacks
    /\ frame.pc = "idle"
    /\ Commit(animate([Heap EXCEPT !.raf = @ \ {c}], c.viewer))
    /\ lastOp' = PageOp("frame", c.viewer)
    /\ UNCHANGED <<showcaseModels, containerSize, phase, frame, TimeVars, SiteVars>>

\* the STL loader's promise fulfils: loadModel() resumes, then .then() runs
LoadResolved(p) ==
    /\ phase = "ready"
    /\ p \in DOMAIN objs
    /\ objs[p].load = "pending"
    /\ Commit(loadThen(loadModelResolved(Heap, p), p))
    /\ lastOp' = PageOp("loadResolved", p)
    /\ UNCHANGED <<showcaseModels, containerSize, phase, frame, TimeVars, SiteVars>>

\* the STL loader's promise rejects: the catch block, then .then() runs
LoadRejected(p) ==
    /\ phase = "ready"
    /\ p \in DOMAIN objs
    /\ objs[p].load = "pending"
    /\ Commit(loadThen(loadModelRejected(Heap, p), p))
    /\ lastOp' = PageOp("loadRejected", p)
    /\ UNCHANGED <<showcaseModels, containerSize, phase, frame, TimeVars, SiteVars>>

\* a window resize event: the containers take a size, the listener runs
ResizeEvent(size) ==
    /\ phase = "ready"
    /\ nextTimerId <= MaxTimerId
    /\ containerSize' = size
    /\ timers' = resizeListener(timers, nextTimerId)
    /\ resizeTimeout' = nextTimerId
    /\ nextTimerId' = nextTimerId + 1
    /\ elapsed' = 0
    /\ burstPasses' = IF timers = {} THEN 0 ELSE burstPasses
    /\ burstEvents' = IF timers = {} THEN 1 ELSE burstEvents + 1
    /\ Commit(Heap)
    /\ lastOp' = Op("resize", 0)
    /\ UNCHANGED <<showcaseModels, phase, frame, SiteVars>>

\* the timer set by the resize listener fires
ResizeTimeout(t) ==
    /\ t \in timers
    /\ t.remaining = 0
    /\ timers' = timers \ {t}
    /\ burstPasses' = burstPasses + 1
    /\ Commit(resizePass(Heap, 1))
    /\ lastOp' = Op("resizeTimeout", 0)
    /\ UNCHANGED <<showcaseModels, containerSize, phase, frame, nextTimerId,
                   resizeTimeout, elapsed, burstEvents, SiteVars>>

\* time passes, never beyond the moment a timer is due
Tick ==
    /\ phase = "ready"
    /\ \A t \in timers : t.remaining > 0
    /\ LET d == IF timers = {} THEN TickMs
                ELSE Min(TickMs,
                         CHOOSE r \in {t.remaining : t \in timers} :
                             \A t \in timers : r <= t.remaining)
       IN  /\ timers' = {[t EXCEPT !.remaining = @ - d] : t \in timers}
           /\ elapsed' = IF elapsed = -1 THEN -1
                         ELSE Min(elapsed + d, ResizeDelay + TickMs)
    /\ Commit(Heap)
    /\ lastOp' = Op("tick", 0)
    /\ UNCHANGED <<showcaseModels, containerSize, phase, frame, nextTimerId,
                   resizeTimeout, burstPasses, burstEvents, SiteVars>>

\* The page's render loops: initialisation, visibility, frames and loads.
Next ==
    \/ InitShowcase
    \/ \E entries \in Batches : ObserverCallback(entries)
    \/ \E c \in rafCallbacks : AnimationFrame(c)
    \/ \E p \in DOMAIN objs : LoadResolved(p)
    \/ \E p \in DOMAIN objs : LoadRejected(p)

Spec == Init /\ [][Next]_vars

\* The page's resize coordinator.  handleResize() reads _isInitialized and
\* writes the camera and the renderer only, and the render loop reads and
\* writes neither, so the frames are left out of this specification; the
\* observer stays, to make instances active.
NextResize ==
    \/ InitShowcase
    \/ \E entries \in Batches : ObserverCallback(entries)
    \/ \E size \in Sizes : ResizeEvent(size)
    \/ \E t \in timers : ResizeTimeout(t)
    \/ Tick

\* showcaseModels as the source has it: no entry names a file
InitResize ==
    /\ Init
    /\ \A k \in DOMAIN showcaseModels : showcaseModels[k].filePath = NoPath

SpecResize == InitResize /\ [][NextResize]_vars

\* ------------------------------------------------------ the class's callers
\* One instance, constructed and registered by a caller that has called
\* nothing else yet.  The methods read and write their own instance and the
\* frame callbacks they scheduled themselves, so one instance shows what the
\* class does; the page specifications run several side by side.
Instances == {1}

InitApi ==
    /\ showcaseModels \in [Instances -> [filePath : FilePaths]]
    /\ objs = [p \in Instances |->
                 ShowcaseViewer(p, showcaseModels[p], p - 1)]
    /\ viewers = [p \in Instances |-> p]
    /\ rafCallbacks = {}
    /\ nextRafId = 1
    /\ timers = {}
    /\ nextTimerId = 1
    /\ resizeTimeout = Null
    /\ containerSize = InitialSize
    /\ loadingEl = [c \in Instances |-> NewLoadingEl]
    /\ phase = "api"
    /\ frame = Idle
    /\ elapsed = -1
    /\ burstPasses = 0
    /\ burstEvents = 0
    /\ obs = [c \in Instances |-> [NewObs EXCEPT !.observed = TRUE]]
    /\ lastOp = Op("init", 0)
    /\ NoSite

ApiFrame == <<showcaseModels, containerSize, phase, frame, TimeVars, SiteVars>>

\* initScene(), called once per instance
ApiInitScene(p) ==
    /\ frame.pc = "idle"
    /\ ~objs[p].isInitialized
    /\ Commit(initScene(Heap, p))
    /\ lastOp' = Op("initScene", p)
    /\ UNCHANGED ApiFrame

\* loadModel(), called once per instance, after initScene()
ApiLoadModel(p) ==
    /\ frame.pc = "idle"
    /\ objs[p].isInitialized
    /\ objs[p].load = "none"
    /\ Commit(loadModel(Heap, p))
    /\ lastOp' = Op("loadModel", p)
    /\ UNCHANGED ApiFrame

ApiLoadResolved(p) ==
    /\ frame.pc = "idle"
    /\ objs[p].load = "pending"
    /\ Commit(loadModelResolved(Heap, p))
    /\ lastOp' = Op("loadResolved", p)
    /\ UNCHANGED ApiFrame

ApiLoadRejected(p) ==
    /\ frame.pc = "idle"
    /\ objs[p].load = "pending"
    /\ Commit(loadModelRejected(Heap, p))
    /\ lastOp' = Op("loadRejected", p)
    /\ UNCHANGED ApiFrame

ApiStart(p) ==
    /\ frame.pc = "idle"
    /\ Commit(start(Heap, p))
    /\ lastOp' = Op("start", p)
    /\ UNCHANGED ApiFrame

ApiStop(p) ==
    /\ frame.pc = "idle"
    /\ Commit(stop(Heap, p))
    /\ lastOp' = Op("stop", p)
    /\ UNCHANGED ApiFrame

\* handleResize(), the container having taken some size
ApiHandleResize(p, size) ==
    /\ frame.pc = "idle"
    /\ containerSize' = size
    /\ Commit(handleResize([Heap EXCEPT !.size = size], p))
    /\ lastOp' = Op("handleResize", p)
    /\ UNCHANGED <<showcaseModels, phase, frame, TimeVars, SiteVars>>

ApiDispose(p) ==
    /\ frame.pc = "idle"
    /\ objs[p].controls.disposed < MaxDispose
    /\ Commit(dispose(Heap, p))
    /\ lastOp' = Op("dispose", p)
    /\ UNCHANGED ApiFrame

NextApi ==
    \/ \E p \in DOMAIN objs : ApiInitScene(p)
    \/ \E p \in DOMAIN objs : ApiLoadModel(p)
    \/ \E p \in DOMAIN objs : ApiLoadResolved(p)
    \/ \E p \in DOMAIN objs : ApiLoadRejected(p)
    \/ \E p \in DOMAIN objs : ApiStart(p)
    \/ \E p \in DOMAIN objs : ApiStop(p)
    \/ \E p \in DOMAIN objs, size \in Sizes : ApiHandleResize(p, size)
    \/ \E p \in DOMAIN objs : ApiDispose(p)
    \/ \E entries \in Batches : ObserverCallback(entries)
    \/ \E c \in rafCallbacks : AnimationFrame(c)

SpecApi == InitApi /\ [][NextApi]_vars

\* ------------------------------------------------- the gate's callers
\* The observer callback over a registry that is shorter than the set of
\* observed cards: the caller observes the instance's card and one more
\* card, whose data-viewer-index is past the end of the registry.
GateCards == Instances \cup {Cardinality(Instances) + 1}

InitGate ==
    /\ showcaseModels \in [Instances -> [filePath : FilePaths]]
    /\ objs = [p \in Instances |->
                 ShowcaseViewer(p, showcaseModels[p], p - 1)]
    /\ viewers = [p \in Instances |-> p]
    /\ rafCallbacks = {}
    /\ nextRafId = 1
    /\ timers = {}
    /\ nextTimerId = 1
    /\ resizeTimeout = Null
    /\ containerSize = InitialSize
    /\ loadingEl = [c \in GateCards |-> NewLoadingEl]
    /\ phase = "api"
    /\ frame = Idle
    /\ elapsed = -1
    /\ burstPasses = 0
    /\ burstEvents = 0
    /\ obs = [c \in GateCards |-> [NewObs EXCEPT !.observed = TRUE]]
    /\ lastOp = Op("init", 0)
    /\ NoSite

NextGate ==
    \/ \E p \in DOMAIN objs : ApiInitScene(p)
    \/ \E p \in DOMAIN objs : ApiLoadModel(p)
    \/ \E p \in DOMAIN objs : ApiLoadResolved(p)
    \/ \E p \in DOMAIN objs : ApiLoadRejected(p)
    \/ \E entries \in Batches : ObserverCallback(entries)
    \/ \E c \in rafCallbacks : AnimationFrame(c)

SpecGate == InitGate /\ [][NextGate]_vars

\* ------------------------------------------- the frame callback, in steps
\* controls.update() dispatches 'change' to the controls' listeners and
\* renderer.render() calls the objects' onBeforeRender / onAfterRender, so
\* code of a caller can run, and call stop(), after requestAnimationFrame
\* and before the render, and again after the render.

\* the window invokes a frame callback: _animate() up to controls.update()
FrameBegin(c) ==
    /\ c \in rafCallbacks
    /\ frame.pc = "idle"
    /\ LET h == [Heap EXCEPT !.raf = @ \ {c}]
       IN  IF ~objs[c.viewer].isActive
           THEN Commit(h) /\ frame' = Idle
           ELSE /\ Commit(animateSchedule(h, c.viewer))
                /\ frame' = [Idle EXCEPT !.viewer = c.viewer, !.pc = "update"]
    /\ lastOp' = Op("frameBegin", c.viewer)
    /\ UNCHANGED <<showcaseModels, containerSize, phase, TimeVars, SiteVars>>

\* a listener calls stop() on the instance whose frame callback is running
ListenerStop ==
    /\ frame.pc \in {"update", "rendered"}
    /\ ~frame.stopped
    /\ Commit(stop(Heap, frame.viewer))
    /\ frame' = [frame EXCEPT !.stopped = TRUE]
    /\ lastOp' = Op("listenerStop", frame.viewer)
    /\ UNCHANGED <<showcaseModels, containerSize, phase, TimeVars, SiteVars>>

\* _animate(): renderer.render(scene, camera)
FrameRender ==
    /\ frame.pc = "update"
    /\ Commit(animateRender(Heap, frame.viewer))
    /\ frame' = [frame EXCEPT !.pc = "rendered",
                              !.renderedAfterStop = frame.stopped]
    /\ lastOp' = Op("frameRender", frame.viewer)
    /\ UNCHANGED <<showcaseModels, containerSize, phase, TimeVars, SiteVars>>

\* _animate() returns
FrameEnd ==
    /\ frame.pc = "rendered"
    /\ Commit(Heap)
    /\ frame' = [frame EXCEPT !.pc = "idle"]
    /\ lastOp' = Op("frameEnd", frame.viewer)
    /\ UNCHANGED <<showcaseModels, containerSize, phase, TimeVars, SiteVars>>

NextReentrant ==
    \/ \E p \in DOMAIN objs : ApiInitScene(p)
    \/ \E p \in DOMAIN objs : ApiStart(p)
    \/ \E p \in DOMAIN objs : ApiStop(p)
    \/ \E p \in DOMAIN objs, size \in Sizes : ApiHandleResize(p, size)
    \/ \E c \in rafCallbacks : FrameBegin(c)
    \/ ListenerStop
    \/ FrameRender
    \/ FrameEnd

SpecReentrant == InitApi /\ [][NextReentrant]_vars

\* ------------------------------------------------- the endless render loop
\* The same callers and the same frame callback, with no end to the handles
\* and a fair window: a scheduled frame callback is invoked unless it is
\* cancelled, and a frame callback that has begun runs to its end.
InitLoop ==
    /\ showcaseModels \in [Instances -> [filePath : FilePaths]]
    /\ objs = [p \in Instances |->
                 ShowcaseViewer(p, showcaseModels[p], p - 1)]
    /\ viewers = [p \in Instances |-> p]
    /\ rafCallbacks = {}
    /\ nextRafId = 1
    /\ timers = {}
    /\ nextTimerId = 1
    /\ resizeTimeout = Null
    /\ containerSize = InitialSize
    /\ loadingEl = [c \in Instances |-> NewLoadingEl]
    /\ phase = "loop"
    /\ frame = Idle
    /\ elapsed = -1
    /\ burstPasses = 0
    /\ burstEvents = 0
    /\ obs = [c \in Instances |-> [NewObs EXCEPT !.observed = TRUE]]
    /\ lastOp = Op("init", 0)
    /\ NoSite

FairFrames ==
    /\ WF_vars(\E c \in rafCallbacks : FrameBegin(c))
    /\ WF_vars(FrameRender)
    /\ WF_vars(FrameEnd)

SpecLoop == InitLoop /\ [][NextReentrant]_vars /\ FairFrames

\* ------------------------------------------------- the placeholder's callers
\* One instance that a caller constructed with any ordinal index and a
\* configuration without a file path, of any color, and on which it calls
\* loadModel() at any moment after initScene(): inactive, active, or with
\* frames rendered.
InitShape ==
    /\ showcaseModels \in [Instances -> [filePath : {NoPath}, color : Colors]]
    /\ \E index \in 0..MaxIndex :
          objs = [p \in Instances |->
                    ShowcaseViewer(p, showcaseModels[p], index)]
    /\ viewers = [p \in Instances |-> p]
    /\ rafCallbacks = {}
    /\ nextRafId = 1
    /\ timers = {}
    /\ nextTimerId = 1
    /\ resizeTimeout = Null
    /\ containerSize = InitialSize
    /\ loadingEl = [c \in Instances |-> NewLoadingEl]
    /\ phase = "api"
    /\ frame = Idle
    /\ elapsed = -1
    /\ burstPasses = 0
    /\ burstEvents = 0
    /\ obs = [c \in Instances |-> [NewObs EXCEPT !.observed = TRUE]]
    /\ lastOp = Op("init", 0)
    /\ NoSite

NextShape ==
    \/ \E p \in DOMAIN objs : ApiInitScene(p)
    \/ \E p \in DOMAIN objs : ApiLoadModel(p)
    \/ \E p \in DOMAIN objs : ApiStart(p)
    \/ \E p \in DOMAIN objs : ApiStop(p)
    \/ \E c \in rafCallbacks : AnimationFrame(c)

SpecShape == InitShape /\ [][NextShape]_vars

\* ------------------------------------------------------ the loader's files
\* One instance whose configuration names any of the STL files, and the
\* outcomes of its load.
InitScale ==
    /\ showcaseModels \in [Instances -> [filePath : DOMAIN StlGeometry]]
    /\ objs = [p \in Instances |->
                 ShowcaseViewer(p, showcaseModels[p], p - 1)]
    /\ viewers = [p \in Instances |-> p]
    /\ rafCallbacks = {}
    /\ nextRafId = 1
    /\ timers = {}
    /\ nextTimerId = 1
    /\ resizeTimeout = Null
    /\ containerSize = InitialSize
    /\ loadingEl = [c \in Instances |-> NewLoadingEl]
    /\ phase = "api"
    /\ frame = Idle
    /\ elapsed = -1
    /\ burstPasses = 0
    /\ burstEvents = 0
    /\ obs = [c \in Instances |-> [NewObs EXCEPT !.observed = TRUE]]
    /\ lastOp = Op("init", 0)
    /\ NoSite

NextScale ==
    \/ \E p \in DOMAIN objs : ApiInitScene(p)
    \/ \E p \in DOMAIN objs : ApiLoadModel(p)
    \/ \E p \in DOMAIN objs : ApiLoadResolved(p)
    \/ \E p \in DOMAIN objs : ApiLoadRejected(p)
    \/ \E p \in DOMAIN objs : ApiStart(p)
    \/ \E p \in DOMAIN objs : ApiStop(p)
    \/ \E c \in rafCallbacks : AnimationFrame(c)

SpecScale == InitScale /\ [][NextScale]_vars

\* ------------------------------------------------- GitHub project cards
cacheKey == "github_repos"
portfolioRepoName == "portfolio"

\* the repositories the API may list for the user, in its order
RepoPool ==
    <<[name |-> "Portfolio", fork |-> FALSE],
      [name |-> "solver", fork |-> FALSE],
      [name |-> "three.js", fork |-> TRUE]>>

\* repo.name.toLowerCase()
toLowerCase(name) == IF name = "Portfolio" THEN "portfolio" ELSE name

\* the bodies of an ok response: at most MaxRepos of the repositories
Bodies ==
    LET picks == UNION {[1..n -> 1..Len(RepoPool)] : n \in 0..MaxRepos}
        ordered == {f \in picks : \A i, j \in DOMAIN f : i < j => f[i] < f[j]}
    IN  {[i \in DOMAIN f |-> RepoPool[f[i]]] : f \in ordered}

\* how a request ends: an ok response with a body, a response that is not
\* ok, a rejected fetch(), or an ok response whose json() rejects
Outcomes ==
    [kind : {"ok"}, body : Bodies]
    \cup [kind : {"notOk", "networkError", "bodyError"}, body : {<<>>}]

\* the documents of the site: the featured flag of each .projects-grid
Layouts == UNION {[1..n -> BOOLEAN] : n \in 0..MaxGrids}

notFork(repo) == ~repo.fork

\* allRepos.filter(repo => !repo.fork)
nonForked(allRepos) == SelectSeq(allRepos, notFork)

\* fetchGitHubRepos, the test of the cache: the mutant never lets it expire
cacheFreshForEver(storage, t) == cacheKey \in DOMAIN storage

\* fetchGitHubRepos: cached && Date.now() - timestamp < cacheTtl
cacheFresh(storage, t) ==
    /\ cacheKey \in DOMAIN storage
    /\ t - storage[cacheKey].timestamp < cacheTtl

\* sessionStorage.setItem(cacheKey, JSON.stringify({data, timestamp}))
setItem(storage, repos, t) ==
    (cacheKey :> [data |-> repos, timestamp |-> t]) @@ storage

\* fetchGitHubRepos(username) up to its first suspension point: it returns
\* the cached data, or makes the request
fetchGitHubRepos(storage, t) ==
    IF cacheFresh(storage, t)
    THEN [requested |-> FALSE, value |-> storage[cacheKey].data]
    ELSE [requested |-> TRUE, value |-> <<>>]

\* fetchGitHubRepos resumed when the request has ended: the mutant caches
\* an empty list before it throws
fetchGitHubReposResumedCachesFailure(storage, outcome, t) ==
    IF outcome.kind = "ok"
    THEN LET repos == nonForked(outcome.body)
         IN  [storage |-> setItem(storage, repos, t), threw |-> FALSE,
              value |-> repos]
    ELSE [storage |-> setItem(storage, <<>>, t), threw |-> TRUE,
          value |-> <<>>]

\* fetchGitHubRepos resumed when the request has ended: it stores and
\* returns the repositories that are not forks, or throws
fetchGitHubReposResumed(storage, outcome, t) ==
    IF outcome.kind = "ok"
    THEN LET repos == nonForked(outcome.body)
         IN  [storage |-> setItem(storage, repos, t), threw |-> FALSE,
              value |-> repos]
    ELSE [storage |-> storage, threw |-> TRUE, value |-> <<>>]

notPortfolio(repo) == toLowerCase(repo.name) # portfolioRepoName

\* initGitHubProjects: the repositories a grid displays
displayRepos(repos, isFeatured) ==
    IF isFeatured
    THEN LET kept == SelectSeq(repos, notPortfolio)
         IN  SubSeq(kept, 1, Min(FeaturedLimit, Len(kept)))
    ELSE repos

\* the card element renderProjectCards creates for a repository
projectCard(repo) ==
    [title |-> repo.name, category |-> "software", hidden |-> FALSE,
     fadeIn |-> TRUE]

\* renderLoadingState(container)
renderLoadingState(dom, g) ==
    [dom EXCEPT !.grids[g].view = "loading", !.grids[g].children = <<>>]

\* renderErrorState(container, message) of the projects script
gridErrorState(dom, g) ==
    [dom EXCEPT !.grids[g].view = "error", !.grids[g].children = <<>>]

\* renderProjectCards(repos, container): the new elements follow the
\* document's elements
renderProjectCards(dom, repos, g) ==
    IF repos = <<>>
    THEN [dom EXCEPT !.grids[g].view = "none", !.grids[g].children = <<>>]
    ELSE [dom EXCEPT
            !.els = @ \o [i \in DOMAIN repos |-> projectCard(repos[i])],
            !.grids[g].view = "cards",
            !.grids[g].children =
                [i \in DOMAIN repos |-> Len(dom.els) + i]]

\* grids.forEach(...) of initGitHubProjects, from grid g on
RECURSIVE renderGrids(_, _, _)
renderGrids(dom, repos, g) ==
    IF g > Len(dom.grids) THEN dom
    ELSE renderGrids(
            renderProjectCards(dom,
                displayRepos(repos, dom.grids[g].featured), g),
            repos, g + 1)

RECURSIVE loadingGrids(_, _)
loadingGrids(dom, g) ==
    IF g > Len(dom.grids) THEN dom
    ELSE loadingGrids(renderLoadingState(dom, g), g + 1)

RECURSIVE errorGrids(_, _)
errorGrids(dom, g) ==
    IF g > Len(dom.grids) THEN dom
    ELSE errorGrids(gridErrorState(dom, g), g + 1)

\* A document as the server sends it: its grids, with the cards the markup
\* puts in the first of them.
document(layout, categories) ==
    [els |-> [i \in DOMAIN categories |->
                [title |-> "static", category |-> categories[i],
                 hidden |-> FALSE, fadeIn |-> FALSE]],
     grids |-> [g \in DOMAIN layout |->
                 [featured |-> layout[g], view |-> "markup",
                  children |-> IF g = 1 THEN [i \in DOMAIN categories |-> i]
                               ELSE <<>>]]]

\* The call of initGitHubProjects() of a document:
\*   pc        "none" before it, "returned" when it found no grid,
\*             "awaiting" the repositories, "rendered", or "caught"
\*   requests  the fetch() calls it made
\*   fresh     it found the cache fresh
\*   outcome   how its request ended
\*   value     the repositories fetchGitHubRepos returned
\*   shown     the grids that showed the loading state
NoOutcome == [kind |-> "none", body |-> <<>>]

NoCall ==
    [pc |-> "none", requests |-> 0, fresh |-> FALSE, outcome |-> NoOutcome,
     value |-> <<>>, shown |-> {}]

\* initGitHubProjects() up to the end of its task: with a fresh cache the
\* function resumes with the cached data in the task's microtasks
initGitHubProjects(call, dom, storage, t) ==
    IF Len(dom.grids) = 0
    THEN [call |-> [call EXCEPT !.pc = "returned"], dom |-> dom]
    ELSE LET c == [call EXCEPT !.shown = DOMAIN dom.grids]
             d == loadingGrids(dom, 1)
             f == fetchGitHubRepos(storage, t)
         IN  IF ~f.requested
             THEN [call |-> [c EXCEPT !.pc = "rendered", !.fresh = TRUE,
                                      !.value = f.value],
                   dom |-> renderGrids(d, f.value, 1)]
             ELSE [call |-> [c EXCEPT !.pc = "awaiting", !.requests = @ + 1],
                   dom |-> d]

\* initGitHubProjects() resumed with what fetchGitHubRepos returned or threw
initGitHubProjectsResumed(call, dom, f) ==
    IF ~f.threw
    THEN [call |-> [call EXCEPT !.pc = "rendered", !.value = f.value],
          dom |-> renderGrids(dom, f.value, 1)]
    ELSE [call |-> [call EXCEPT !.pc = "caught"],
          dom |-> errorGrids(dom, 1)]

\* the scripts of the site's other pages do not run in these documents
NoShowcase ==
    /\ showcaseModels = <<>>
    /\ objs = <<>>
    /\ viewers = <<>>
    /\ rafCallbacks = {}
    /\ nextRafId = 1
    /\ timers = {}
    /\ nextTimerId = 1
    /\ resizeTimeout = Null
    /\ containerSize = InitialSize
    /\ loadingEl = <<>>
    /\ phase = "site"
    /\ frame = Idle
    /\ elapsed = -1
    /\ burstPasses = 0
    /\ burstEvents = 0
    /\ obs = <<>>

\* a tab opened on the site: sessionStorage is empty, no document yet
InitGitHub ==
    /\ NoShowcase
    /\ lastOp = PageOp("init", 0)
    /\ sessionStorage = <<>>
    /\ now = 0
    /\ gitCall = NoCall
    /\ projectsDom = document(<<>>, <<>>)
    /\ projectFilter = <<>>
    /\ navMenu = <<>>
    /\ contactForm = <<>>

\* The tab loads a document of the site, which drops the one it had with
\* its request; DOMContentLoaded runs initGitHubProjects().
GitHubContentLoaded(layout) ==
    /\ LET r == initGitHubProjects(NoCall, document(layout, <<>>),
                                   sessionStorage, now)
       IN  /\ gitCall' = r.call
           /\ projectsDom' = r.dom
    /\ lastOp' = PageOp("contentLoaded", Len(layout))
    /\ UNCHANGED <<ViewerVars, sessionStorage, now, projectFilter, navMenu,
                   contactForm>>

\* the request ends, and fetchGitHubRepos and initGitHubProjects resume
GitHubResponse(outcome) ==
    /\ gitCall.pc = "awaiting"
    /\ LET f == fetchGitHubReposResumed(sessionStorage, outcome, now)
           r == initGitHubProjectsResumed(
                    [gitCall EXCEPT !.outcome = outcome], projectsDom, f)
       IN  /\ sessionStorage' = f.storage
           /\ gitCall' = r.call
           /\ projectsDom' = r.dom
    /\ lastOp' = PageOp("response", 0)
    /\ UNCHANGED <<ViewerVars, now, projectFilter, navMenu, contactForm>>

\* time passes
ClockTick ==
    /\ now + CacheTickMs <= MaxClock * CacheTickMs
    /\ now' = now + CacheTickMs
    /\ lastOp' = PageOp("clock", 0)
    /\ UNCHANGED <<ViewerVars, sessionStorage, gitCall, projectsDom,
                   projectFilter, navMenu, contactForm>>

NextGitHub ==
    \/ \E layout \in Layouts : GitHubContentLoaded(layout)
    \/ \E outcome \in Outcomes : GitHubResponse(outcome)
    \/ ClockTick

\* a request ends: with a response, with a failure, or by the timeout of
\* the browser's network stack
FairGitHub == WF_vars(\E outcome \in Outcomes : GitHubResponse(outcome))

SpecGitHub == InitGitHub /\ [][NextGitHub]_vars /\ FairGitHub

\* ---------------------------------------------------- project filtering
\* The projects page: one grid that is not featured, the filter buttons, and
\* the two DOMContentLoaded listeners, initGitHubProjects() and
\* initProjectFilter().  The markup is not part of the scripts: the cards it
\* puts in the grid and the order in which it loads the two scripts, which
\* is the order of the listeners, are any.
FilterButtons == {"all", "software", "general"}

Categories == {"software", "general"}

Markups == UNION {[1..n -> Categories] : n \in 0..MaxStatic}

ListenerOrders == {"filterFirst", "githubFirst"}

\* document.querySelectorAll('.project-card'): the cards in the document
queryProjectCards(dom) ==
    UNION {{dom.grids[g].children[i] : i \in DOMAIN dom.grids[g].children} :
             g \in DOMAIN dom.grids}

\* The filter buttons and their listeners:
\*   listening     the click listeners were added
\*   projectCards  the NodeList the listeners captured
\*   active        the buttons with the class active
\*   clicked       the button clicked last
NoFilter ==
    [listening |-> FALSE, projectCards |-> {}, active |-> {"all"},
     clicked |-> "none"]

\* initProjectFilter()
initProjectFilter(filter, dom) ==
    IF queryProjectCards(dom) = {} THEN filter
    ELSE [filter EXCEPT !.listening = TRUE,
                        !.projectCards = queryProjectCards(dom)]

\* filterProjects(filter, projectCards)
filterProjects(dom, button, projectCards) ==
    [dom EXCEPT !.els =
        [id \in DOMAIN @ |->
            IF id \notin projectCards THEN @[id]
            ELSE IF button = "all" \/ @[id].category = button
                 THEN [@[id] EXCEPT !.hidden = FALSE, !.fadeIn = TRUE]
                 ELSE [@[id] EXCEPT !.hidden = TRUE, !.fadeIn = FALSE]]]

InitProjects ==
    /\ NoShowcase
    /\ lastOp = PageOp("init", 0)
    /\ sessionStorage = <<>>
    /\ now = 0
    /\ gitCall = NoCall
    /\ projectsDom = document(<<>>, <<>>)
    /\ projectFilter = NoFilter
    /\ navMenu = <<>>
    /\ contactForm = <<>>

\* The tab loads the projects page; DOMContentLoaded runs the two listeners
\* in their order, each followed by its microtasks.
ProjectsContentLoaded(categories, order) ==
    /\ LET doc == document(<<FALSE>>, categories)
           r == initGitHubProjects(NoCall, doc, sessionStorage, now)
       IN  /\ gitCall' = r.call
           /\ projectsDom' = r.dom
           /\ projectFilter' =
                 IF order = "filterFirst" THEN initProjectFilter(NoFilter, doc)
                 ELSE initProjectFilter(NoFilter, r.dom)
    /\ lastOp' = PageOp("contentLoaded", 1)
    /\ UNCHANGED <<ViewerVars, sessionStorage, now, navMenu, contactForm>>

\* the visitor clicks a filter button; its listener runs if it has one
FilterClick(button) ==
    /\ gitCall.pc # "none"
    /\ IF projectFilter.listening
       THEN /\ projectFilter' = [projectFilter EXCEPT !.active = {button},
                                                      !.clicked = button]
            /\ projectsDom' = filterProjects(projectsDom, button,
                                             projectFilter.projectCards)
       ELSE /\ projectFilter' = [projectFilter EXCEPT !.clicked = button]
            /\ UNCHANGED projectsDom
    /\ lastOp' = PageOp("click", 0)
    /\ UNCHANGED <<ViewerVars, sessionStorage, now, gitCall, navMenu,
                   contactForm>>

NextProjects ==
    \/ \E categories \in Markups, order \in ListenerOrders :
          ProjectsContentLoaded(categories, order)
    \/ \E outcome \in Outcomes : GitHubResponse(outcome)
    \/ \E button \in FilterButtons : FilterClick(button)
    \/ ClockTick

SpecProjects == InitProjects /\ [][NextProjects]_vars

\* ------------------------------------------------ js/navigation.js: menu
\* String(isExpanded), the value setAttribute stores
ariaValue(isExpanded) == IF isExpanded THEN "true" ELSE "false"

\* the header as the markup has it, the menu closed, and no listener yet
ClosedMenu ==
    [listening |-> FALSE, toggleActive |-> FALSE, menuActive |-> FALSE,
     ariaExpanded |-> "false", innerWidth |-> 1024, resizeTimer |-> Null,
     timers |-> {}, nextTimerId |-> 1]

\* classList.remove('active') on both, aria-expanded 'false'
closeMenuStaleAria(m) ==
    [m EXCEPT !.toggleActive = FALSE, !.menuActive = FALSE]

closeMenu(m) ==
    [m EXCEPT !.toggleActive = FALSE, !.menuActive = FALSE,
              !.ariaExpanded = "false"]

\* click listener of the toggle button
toggleClick(m) ==
    [m EXCEPT !.toggleActive = ~@, !.menuActive = ~@,
              !.ariaExpanded = ariaValue(~m.menuActive)]

\* click listener of the document
documentClick(m, target) ==
    LET isClickInside == target \in {"toggle", "link", "menu"}
    IN  IF ~isClickInside /\ m.menuActive THEN closeMenu(m) ELSE m

InitNav ==
    /\ NoShowcase
    /\ lastOp = PageOp("init", 0)
    /\ sessionStorage = <<>>
    /\ now = 0
    /\ gitCall = <<>>
    /\ projectsDom = <<>>
    /\ projectFilter = <<>>
    /\ navMenu = ClosedMenu
    /\ contactForm = <<>>

\* DOMContentLoaded of a page: initMobileMenu() on the markup's header
NavContentLoaded ==
    /\ navMenu' = [ClosedMenu EXCEPT !.listening = TRUE,
                                     !.innerWidth = navMenu.innerWidth,
                                     !.nextTimerId = navMenu.nextTimerId]
    /\ lastOp' = PageOp("contentLoaded", 0)
    /\ UNCHANGED <<ViewerVars, sessionStorage, now, gitCall, projectsDom,
                   projectFilter, contactForm>>

\* a click: the listener of the target, then the document's as it bubbles
NavClick(target) ==
    /\ navMenu.listening
    /\ navMenu' = documentClick(IF target = "toggle" THEN toggleClick(navMenu)
                                ELSE IF target = "link" THEN closeMenu(navMenu)
                                ELSE navMenu, target)
    /\ lastOp' = PageOp(target, 0)
    /\ UNCHANGED <<ViewerVars, sessionStorage, now, gitCall, projectsDom,
                   projectFilter, contactForm>>

\* resize listener of the window: clearTimeout, setTimeout
NavResize(width) ==
    /\ navMenu.listening
    /\ navMenu.nextTimerId <= MaxTimerId
    /\ navMenu' =
          [navMenu EXCEPT
              !.innerWidth = width,
              !.timers = (@ \ {navMenu.resizeTimer}) \cup {navMenu.nextTimerId},
              !.resizeTimer = navMenu.nextTimerId,
              !.nextTimerId = @ + 1]
    /\ lastOp' = PageOp("resize", 0)
    /\ UNCHANGED <<ViewerVars, sessionStorage, now, gitCall, projectsDom,
                   projectFilter, contactForm>>

\* the callback of the resize timer
NavResizeTimeout ==
    /\ \E id \in navMenu.timers :
          LET m == [navMenu EXCEPT !.timers = @ \ {id}]
          IN  navMenu' = IF m.innerWidth > MobileBreakpoint /\ m.menuActive
                         THEN closeMenu(m) ELSE m
    /\ lastOp' = PageOp("resizeTimeout", 0)
    /\ UNCHANGED <<ViewerVars, sessionStorage, now, gitCall, projectsDom,
                   projectFilter, contactForm>>

\* a click lands on the toggle button, on a nav link of the menu, on the
\* menu beside its links or outside the two; a resize leaves a width
NextNav ==
    \/ NavContentLoaded
    \/ \E target \in {"toggle", "link", "menu", "outside"} : NavClick(target)
    \/ \E width \in {375, MobileBreakpoint, 1024} : NavResize(width)
    \/ NavResizeTimeout

SpecNav == InitNav /\ [][NextNav]_vars

\* ------------------------------------------- contact form: submit handler
\* values of the email field, as characters: empty, an address, no dot
\* after the @, a space before the @, nothing after the dot
Emails ==
    {<<>>, <<"a", "@", "b", ".", "c">>, <<"a", "@", "b", "c", "d">>,
     <<"a", " ", "@", "b", ".", "c">>, <<"a", "@", "b", ".">>}

\* what the visitor can have typed into the four fields
FormInputs ==
    [name : {"", "Ann"}, email : Emails, subject : {"", "Hi"},
     message : {"", "Hello"}]

\* the action attribute of the form: absent or empty, '#', a form service
FormActions == {"", "#", "https://formspree.io/f/id"}

\* textContent of the button once innerHTML is the loading span and text
SendingText == " Sending..."

\* /^[^\s@]+@[^\s@]+\.[^\s@]+$/.test(email)
emailRegexTest(email) ==
    LET plain(a, b) == /\ a <= b
                       /\ \A k \in a..b : email[k] \notin {" ", "@"}
    IN  \E i, j \in 1..Len(email) :
            /\ email[i] = "@"
            /\ email[j] = "."
            /\ plain(1, i - 1)
            /\ plain(i + 1, j - 1)
            /\ plain(j + 1, Len(email))

\* the form, its button and its status element as the markup has them
MarkupForm ==
    [listening |-> FALSE, action |-> "",
     fields |-> [name |-> "", email |-> <<>>, subject |-> "",
                 message |-> ""],
     btn |-> [disabled |-> FALSE, textContent |-> "Send Message"],
     status |-> [textContent |-> "", type |-> ""],
     inflight |-> {}, requests |-> 0, hideTimers |-> 0, resets |-> 0,
     outcome |-> "none"]

showFormStatusSilent(form, message, type) == form

showFormStatus(form, message, type) ==
    [form EXCEPT !.status = [textContent |-> message, type |-> type],
                 !.hideTimers = IF type = "success" THEN @ + 1 ELSE @]

\* the submit listener up to its await
submitHandler(form) ==
    LET d == form.fields
    IN  IF d.name = "" \/ d.email = <<>> \/ d.subject = "" \/ d.message = ""
        THEN showFormStatus(form, "Please fill in all required fields.",
                            "error")
        ELSE IF ~emailRegexTest(d.email)
        THEN showFormStatus(form, "Please enter a valid email address.",
                            "error")
        ELSE IF form.action = "" \/ form.action = "#"
        THEN showFormStatus(form, "Form backend not configured yet.",
                            "error")
        ELSE [form EXCEPT
                 !.inflight = @ \cup
                     {[id |-> form.requests + 1,
                       originalBtnText |-> form.btn.textContent]},
                 !.requests = @ + 1,
                 !.btn = [disabled |-> TRUE, textContent |-> SendingText]]

\* the submit listener of submission s from its await on: ok, catch, finally
submitResumed(form, s, outcome) ==
    LET f == IF outcome = "ok"
             THEN [showFormStatus(form, "Thank you for your message!",
                                  "success")
                      EXCEPT !.fields = MarkupForm.fields, !.resets = @ + 1]
             ELSE showFormStatus(form, "Oops! There was a problem.", "error")
    IN  [f EXCEPT !.inflight = @ \ {s},
                  !.btn = [disabled |-> FALSE,
                           textContent |-> s.originalBtnText],
                  !.outcome = outcome]

InitForm ==
    /\ NoShowcase
    /\ lastOp = PageOp("init", 0)
    /\ sessionStorage = <<>>
    /\ now = 0
    /\ gitCall = <<>>
    /\ projectsDom = <<>>
    /\ projectFilter = <<>>
    /\ navMenu = <<>>
    /\ contactForm = MarkupForm

\* DOMContentLoaded of the contact page: initFormValidation(); the
\* document it replaces goes with its requests and timers
FormContentLoaded(action) ==
    /\ contactForm' = [MarkupForm EXCEPT !.listening = TRUE,
                                         !.action = action,
                                         !.requests = contactForm.requests]
    /\ lastOp' = PageOp("contentLoaded", 0)
    /\ UNCHANGED <<ViewerVars, sessionStorage, now, gitCall, projectsDom,
                   projectFilter, navMenu>>

\* the visitor edits the fields
FormInput(fields) ==
    /\ contactForm.listening
    /\ contactForm' = [contactForm EXCEPT !.fields = fields]
    /\ lastOp' = PageOp("input", 0)
    /\ UNCHANGED <<ViewerVars, sessionStorage, now, gitCall, projectsDom,
                   projectFilter, navMenu>>

\* a submit event reaches the form: by the button or the Enter key while
\* the button is enabled, or by requestSubmit(), which does not look at the
\* button
FormSubmit ==
    /\ contactForm.listening
    /\ contactForm.requests < MaxSubmits
    /\ contactForm' = submitHandler(contactForm)
    /\ lastOp' = PageOp("submit", 0)
    /\ UNCHANGED <<ViewerVars, sessionStorage, now, gitCall, projectsDom,
                   projectFilter, navMenu>>

\* the request of a submission ends: response.ok, a response that is not
\* ok, or a rejected fetch
FormResponse(s, outcome) ==
    /\ s \in contactForm.inflight
    /\ contactForm' = submitResumed(contactForm, s, outcome)
    /\ lastOp' = PageOp("response", s.id)
    /\ UNCHANGED <<ViewerVars, sessionStorage, now, gitCall, projectsDom,
                   projectFilter, navMenu>>

\* the 5 s timer of a success message fires
FormStatusTimeout ==
    /\ contactForm.hideTimers > 0
    /\ contactForm' = [contactForm EXCEPT
                          !.status = [textContent |-> "", type |-> ""],
                          !.hideTimers = @ - 1]
    /\ lastOp' = PageOp("statusTimeout", 0)
    /\ UNCHANGED <<ViewerVars, sessionStorage, now, gitCall, projectsDom,
                   projectFilter, navMenu>>

NextForm ==
    \/ \E action \in FormActions : FormContentLoaded(action)
    \/ \E fields \in FormInputs : FormInput(fields)
    \/ FormSubmit
    \/ \E s \in contactForm.inflight,
          outcome \in {"ok", "notOk", "networkError"} :
             FormResponse(s, outcome)
    \/ FormStatusTimeout

SpecForm == InitForm /\ [][NextForm]_vars

\* ================================================================ claims
\* the frame callbacks of instance p that are scheduled
Pending(p) == {c \in rafCallbacks : c.viewer = p}

\* C1: an instance never has more than one frame callback scheduled, and a
\* start() that follows a stop() leaves exactly one, the one it created.
C1_AtMostOneFrame ==
    \A p \in DOMAIN objs :
        /\ Cardinality(Pending(p)) <= 1
        /\ (/\ lastOp.op = "start"
            /\ lastOp.v = p
            /\ lastOp.pre.stopRet
            /\ lastOp.pre.isInitialized)
           => /\ Pending(p) = {[id |-> nextRafId - 1, viewer |-> p]}
              /\ objs[p].animationId = nextRafId - 1

\* start() has just run on an instance that was active and then stopped
C1_Witness ==
    /\ lastOp.op = "start"
    /\ lastOp.pre.stopRet
    /\ lastOp.pre.everActive
    /\ Cardinality(Pending(lastOp.v)) = 1

C3_DisposeIsTerminal ==
    \A p \in DOMAIN objs :
        objs[p].controls.disposed > 0 =>
            /\ ~objs[p].isActive
            /\ Pending(p) = {}
            /\ obs[p].rendered = 0

\* C4, as claimed: however often dispose() is called, the controls, the
\* renderer and each geometry and material are released at most once.
C4_ReleasedOnce ==
    \A p \in DOMAIN objs :
        /\ objs[p].controls.disposed <= 1
        /\ objs[p].renderer.disposed <= 1
        /\ \A k \in DOMAIN objs[p].scene.meshes :
              /\ objs[p].scene.meshes[k].geometryDisposed <= 1
              /\ objs[p].scene.meshes[k].materialDisposed <= 1

\* C5: active implies initialized, and start() on an instance that is not
\* initialized changes nothing, schedules nothing and raises nothing.
C5_ActiveOnlyIfInitialized ==
    /\ [](\A p \in DOMAIN objs : objs[p].isActive => objs[p].isInitialized)
    /\ [][\A p \in DOMAIN objs :
            (/\ lastOp'.op = "start"
             /\ lastOp'.v = p
             /\ ~objs[p].isInitialized)
            => /\ objs'[p] = objs[p]
               /\ rafCallbacks' = rafCallbacks
               /\ nextRafId' = nextRafId
               /\ obs'[p].rendered = 0
               /\ ~obs'[p].fault]_vars

\* start() has just run on an instance that initScene() had not set up
C5_Witness ==
    /\ lastOp.op = "start"
    /\ ~lastOp.pre.isInitialized
    /\ ~objs[lastOp.v].isActive

\* C6: start() on an initialized instance leaves one frame callback and one
\* render; start() again changes nothing, schedules nothing, renders nothing.
C6_StartTwice ==
    /\ [](\A p \in DOMAIN objs :
            (lastOp.op = "start" /\ lastOp.v = p /\ lastOp.pre.isInitialized)
            => /\ Cardinality(Pending(p)) = 1
               /\ obs[p].rendered <= 1
               /\ objs[p].isActive)
    /\ [][\A p \in DOMAIN objs :
            (/\ lastOp'.op = "start"
             /\ lastOp'.v = p
             /\ objs[p].isActive)
            => /\ objs'[p] = objs[p]
               /\ rafCallbacks' = rafCallbacks
               /\ nextRafId' = nextRafId
               /\ obs'[p].rendered = 0]_vars

\* start() has just run on an instance that was already active
C6_Witness ==
    /\ lastOp.op = "start"
    /\ lastOp.pre.isActive
    /\ Cardinality(Pending(lastOp.v)) = 1

\* C7: stop() on an instance that was never active raises nothing and
\* leaves _isActive, _isInitialized and _animationId as they were.
C7_StopNeverStarted ==
    [][\A p \in DOMAIN objs :
          (/\ lastOp'.op = "stop"
           /\ lastOp'.v = p
           /\ ~obs[p].everActive)
          => /\ objs'[p].isActive = objs[p].isActive
             /\ objs'[p].isInitialized = objs[p].isInitialized
             /\ objs'[p].animationId = objs[p].animationId
             /\ objs'[p] = objs[p]
             /\ rafCallbacks' = rafCallbacks
             /\ ~obs'[p].fault]_vars

\* stop() has just run on an initialized instance that was never active
C7_Witness ==
    /\ lastOp.op = "stop"
    /\ lastOp.pre.isInitialized
    /\ ~lastOp.pre.everActive
    /\ ~obs[lastOp.v].fault

\* C8, as claimed: when a frame callback in which stop() was called has
\* returned, the instance is inactive, has no frame callback scheduled, and
\* has not rendered after the return of stop().
C8_StopInsideFrame ==
    (lastOp.op = "frameEnd" /\ frame.stopped) =>
        /\ ~objs[frame.viewer].isActive
        /\ Pending(frame.viewer) = {}
        /\ ~frame.renderedAfterStop

\* C9: once the observer has delivered entries for a card, its instance is
\* active exactly if the last entry was intersecting; before any entry it is
\* inactive; and no render is issued between a leaving and an entering entry.
C9_GateFollowsLastEntry ==
    \A c \in Cards :
        c <= Len(viewers) =>
            LET p == viewers[c]
            IN  /\ objs[p].isInitialized
                /\ objs[p].isActive = (obs[c].lastSeen = "in")
                /\ obs[c].lastSeen = "out" => Pending(p) = {}
                /\ ~obs[p].renderedAfterStop

\* The observer has just started an instance with the second frame handle
\* while no other card has had an entry: the first handle went to an earlier
\* start of the same instance, which a leaving entry stopped in between.
C9_Witness ==
    \E c \in Cards :
        /\ lastOp.op = "observer"
        /\ c <= Len(viewers)
        /\ obs[c].lastSeen = "in"
        /\ obs[c].rendered = 1
        /\ objs[viewers[c]].isActive
        /\ objs[viewers[c]].animationId = 2
        /\ \A d \in Cards \ {c} : obs[d].lastSeen = "none"

MeshKinds(p) ==
    [k \in DOMAIN objs[p].scene.meshes |-> objs[p].scene.meshes[k].kind]

\* C11: when the loader's promise of an instance has rejected, loadModel()
\* has resolved, nothing was thrown, and the scene holds exactly one mesh,
\* the error indicator.
C11_LoadFailureAbsorbed ==
    \A p \in DOMAIN objs :
        obs[p].loader = "rejected" =>
            /\ objs[p].load = "resolved"
            /\ ~obs[p].fault
            /\ MeshKinds(p) = <<"error">>

\* the loader's promise has just rejected on an instance that was rendering
C11_Witness ==
    /\ lastOp.op = "loadRejected"
    /\ obs[lastOp.v].loader = "rejected"
    /\ objs[lastOp.v].isActive
    /\ Len(objs[lastOp.v].scene.meshes) = 1

\* C12: while a card's load is in flight its loading indicator is shown
\* unchanged; once loadModel() has settled the indicator is hidden exactly
\* if the load did not fail; after a failed load it carries the error class
\* and the failure message, and is never hidden.
C12_LoadingIndicator ==
    \A c \in Cards :
        c <= Len(viewers) =>
            LET p == viewers[c]
                el == loadingEl[objs[p].canvas]
            IN  /\ objs[p].load = "pending" => el = NewLoadingEl
                /\ (objs[p].load = "resolved" /\ obs[p].loader # "rejected")
                      => (el.hidden /\ ~el.error)
                /\ obs[p].loader = "rejected" =>
                      /\ objs[p].load = "resolved"
                      /\ ~el.hidden
                      /\ el.error
                      /\ el.text = "Failed to load model."

\* a load has just failed on one card while the indicator of another card,
\* whose load did not fail, is hidden
C12_Witness ==
    /\ lastOp.op = "loadRejected"
    /\ \E c \in Cards :
          /\ obs[c].loader = "rejected"
          /\ loadingEl[c].error
          /\ ~loadingEl[c].hidden
    /\ \E c \in Cards :
          /\ obs[c].loader # "rejected"
          /\ loadingEl[c].hidden

\* the page has run a task on instance p: an outcome of its load, one of
\* its frame callbacks, or a batch of entries for its card
TaskOn(p) ==
    \/ lastOp.op \in {"loadResolved", "loadRejected", "frame"} /\ lastOp.v = p
    \/ lastOp.op = "observer" /\ objs[p].canvas = lastOp.v

\* C13: nothing is ever thrown and no promise of loadModel() rejects; once
\* the page is initialized every configuration has its instance, in the
\* registry, initialized, its card observed; and a task on one instance
\* leaves the object of every other instance, its scheduled frame callbacks
\* and its card's loading indicator as they were.
C13_Isolation ==
    /\ [](/\ \A c \in Cards : ~obs[c].fault
          /\ \A p \in DOMAIN objs : objs[p].load # "rejected"
          /\ phase = "ready" =>
                /\ Len(viewers) = Len(showcaseModels)
                /\ \A k \in DOMAIN showcaseModels :
                      /\ viewers[k] \in DOMAIN objs
                      /\ objs[viewers[k]].isInitialized
                      /\ obs[k].observed)
    /\ [][\A p \in DOMAIN objs :
            TaskOn(p)' =>
                \A q \in DOMAIN objs \ {p} :
                    /\ objs'[q] = objs[q]
                    /\ {c \in rafCallbacks' : c.viewer = q} = Pending(q)
                    /\ loadingEl'[objs[q].canvas] = loadingEl[objs[q].canvas]
                    /\ obs'[q].rendered = 0]_vars

\* the load of one instance has just failed while another instance, whose
\* load was still in flight, was rendering
C13_Witness ==
    /\ lastOp.op = "loadRejected"
    /\ Len(viewers) = Len(showcaseModels)
    /\ \E p, q \in DOMAIN objs :
          /\ p # q
          /\ obs[p].loader = "rejected"
          /\ objs[q].isActive
          /\ Pending(q) # {}
          /\ objs[q].load = "pending"

\* C14: start() on an initialized, inactive instance whose load is in flight
\* makes it active, schedules one frame callback and renders the scene once,
\* without a mesh if none was added, and throws nothing; the completion of
\* the load, by success or by failure, leaves _isActive, _animationId and
\* the scheduled frame callbacks as they were and renders nothing.
C14_StartDuringLoad ==
    /\ [](\A p \in DOMAIN objs :
            (/\ lastOp.op = "start"
             /\ lastOp.v = p
             /\ lastOp.pre.isInitialized
             /\ ~lastOp.pre.isActive
             /\ objs[p].load = "pending")
            => /\ objs[p].isActive
               /\ Cardinality(Pending(p)) = 1
               /\ obs[p].rendered = 1
               /\ MeshKinds(p) = <<>>
               /\ ~obs[p].fault)
    /\ [][\A p \in DOMAIN objs :
            (/\ lastOp'.op \in {"loadResolved", "loadRejected"}
             /\ lastOp'.v = p)
            => /\ objs[p].load = "pending"
               /\ objs'[p].load = "resolved"
               /\ objs'[p].isActive = objs[p].isActive
               /\ objs'[p].animationId = objs[p].animationId
               /\ rafCallbacks' = rafCallbacks
               /\ obs'[p].rendered = 0]_vars

\* start() has just run on an instance whose load is in flight
C14_Witness ==
    /\ lastOp.op = "start"
    /\ ~lastOp.pre.isActive
    /\ objs[lastOp.v].load = "pending"
    /\ objs[lastOp.v].isActive
    /\ obs[lastOp.v].rendered = 1
    /\ objs[lastOp.v].scene.meshes = <<>>

\* dispose() has released something of instance p
Released(p) ==
    \/ objs[p].controls.disposed > 0
    \/ objs[p].renderer.disposed > 0
    \/ \E k \in DOMAIN objs[p].scene.meshes :
          \/ objs[p].scene.meshes[k].geometryDisposed > 0
          \/ objs[p].scene.meshes[k].materialDisposed > 0

\* when dispose() returns, the loop it found is stopped and did not render
\* during the call
DisposeStopsFirst ==
    \A p \in DOMAIN objs :
        (lastOp.op = "dispose" /\ lastOp.v = p) =>
            /\ ~objs[p].isActive
            /\ Pending(p) = {}
            /\ objs[p].animationId = Null
            /\ obs[p].rendered = 0

\* C15, as claimed: dispose() leaves the loop stopped, and no render is ever
\* issued by an instance of which dispose() has released a resource.
C15_NoRenderOnReleased ==
    /\ DisposeStopsFirst
    /\ \A p \in DOMAIN objs : obs[p].rendered > 0 => ~Released(p)

\* C16: handleResize() throws nothing, renders nothing and leaves _isActive,
\* _animationId and the scheduled frame callbacks as they were; before
\* initScene() it leaves the whole object as it was; after initScene() it
\* sets the camera's aspect to the container's width / height and the
\* renderer's size to (width, height), and nothing else.
C16_HandleResize ==
    [][\A p \in DOMAIN objs :
          (lastOp'.op = "handleResize" /\ lastOp'.v = p) =>
              /\ objs'[p].isActive = objs[p].isActive
              /\ objs'[p].animationId = objs[p].animationId
              /\ rafCallbacks' = rafCallbacks
              /\ obs'[p].rendered = 0
              /\ ~obs'[p].fault
              /\ ~objs[p].isInitialized => objs'[p] = objs[p]
              /\ objs[p].isInitialized =>
                    /\ objs'[p].camera.aspect = Ratio(containerSize')
                    /\ objs'[p].renderer.size = containerSize'
                    /\ objs'[p] =
                          [objs[p] EXCEPT
                              !.camera.aspect = Ratio(containerSize'),
                              !.renderer.size = containerSize']]_vars

\* handleResize() has just run on an active instance whose container had
\* taken another size than the one initScene() found
C16_Witness ==
    /\ lastOp.op = "handleResize"
    /\ lastOp.pre.isInitialized
    /\ lastOp.pre.isActive
    /\ containerSize # InitialSize
    /\ objs[lastOp.v].renderer.size = containerSize
    /\ objs[lastOp.v].camera.aspect = Ratio(containerSize)
    /\ Pending(lastOp.v) # {}

\* C17: once the page is initialized, initScene() and loadModel() have each
\* been called exactly once on every instance, whatever the outcome of the
\* load, loadModel() after initScene() had returned, and no start(), stop()
\* or handleResize() was called on an instance before its initScene()
\* returned; before the page is initialized no instance exists.
C17_InitFlow ==
    /\ phase = "loading" => objs = <<>>
    /\ \A p \in DOMAIN objs :
          /\ obs[p].initCalls = 1
          /\ obs[p].loadCalls = 1
          /\ ~obs[p].loadEarly
          /\ ~obs[p].early

\* the load of an instance has failed, and the gate has since started it
C17_Witness ==
    \E p \in DOMAIN objs :
        /\ lastOp.op = "observer"
        /\ obs[p].loader = "rejected"
        /\ obs[p].loadCalls = 1
        /\ objs[p].isActive
        /\ obs[p].rendered = 1

\* C18: the instance at position k of the registry was constructed with the
\* k-th configuration, the ordinal k - 1 and the canvas of the k-th card,
\* whose data-viewer-index is k - 1; once the page is initialized the
\* registry is as long as the configuration list; and a batch of entries
\* for a card acts on the instance at the card's index: that instance ends
\* active exactly if the last entry was intersecting, and the object and the
\* frame callbacks of every other instance stay as they were.
C18_RegistryAligned ==
    /\ [](/\ phase = "ready" => Len(viewers) = Len(showcaseModels)
          /\ \A k \in DOMAIN viewers :
                /\ objs[viewers[k]].config = showcaseModels[k]
                /\ objs[viewers[k]].index = k - 1
                /\ objs[viewers[k]].canvas = k
                /\ dataViewerIndex(k) = objs[viewers[k]].index)
    /\ [][lastOp'.op = "observer" =>
                LET card == lastOp'.v
                    p == viewers[dataViewerIndex(card) + 1]
                IN  /\ objs[p].canvas = card
                    /\ objs'[p].isActive = (obs'[card].lastSeen = "in")
                    /\ obs'[card].lastSeen # "none"
                    /\ \A q \in DOMAIN objs \ {p} :
                          /\ objs'[q] = objs[q]
                          /\ obs'[objs[q].canvas].lastSeen
                                = obs[objs[q].canvas].lastSeen
                          /\ {c \in rafCallbacks' : c.viewer = q}
                                = Pending(q)]_vars

\* the gate has just started the instance of the second card and left the
\* instance of the first card inactive
C18_Witness ==
    /\ lastOp.op = "observer"
    /\ Len(viewers) >= 2
    /\ objs[viewers[2]].isActive
    /\ objs[viewers[2]].index = 1
    /\ obs[2].lastSeen = "in"
    /\ ~objs[viewers[1]].isActive

\* C19: when the first entry of a batch names a card that has no instance in
\* the registry, the callback throws nothing; if every entry names such a
\* card it leaves every object and every frame callback as it was; entries
\* that follow for a card with an instance are processed: that instance ends
\* active exactly if the last of them was intersecting.
C19_MissingViewerSkipped ==
    [][\A entries \in Batches :
          (/\ lastOp'.op = "observer"
           /\ entries[1].target \in Missing
           /\ ObserverCallback(entries)) =>
              /\ \A c \in Cards : ~obs'[c].fault
              /\ LET m == entries[1].target
                 IN  /\ obs'[m].skipped >= 1
                     /\ obs'[m] =
                           [Heap.obs[m] EXCEPT !.skipped = obs'[m].skipped]
              /\ entries[Len(entries)].target \in Missing =>
                    /\ objs' = objs
                    /\ rafCallbacks' = rafCallbacks
                    /\ \A c \in Cards \ Missing : obs'[c] = Heap.obs[c]
              /\ entries[Len(entries)].target \notin Missing =>
                    LET last == entries[Len(entries)]
                        p == viewers[dataViewerIndex(last.target) + 1]
                    IN  /\ obs'[last.target].lastSeen =
                              (IF last.isIntersecting THEN "in" ELSE "out")
                        /\ objs[p].isInitialized =>
                              objs'[p].isActive = last.isIntersecting
                        /\ ~objs[p].isInitialized => objs'[p] = objs[p]]_vars

\* a batch has just been processed whose first entry was skipped and whose
\* second entry started the instance of its card
C19_Witness ==
    /\ lastOp.op = "observer"
    /\ \E m \in Missing : obs[m].skipped = 1
    /\ \E p \in DOMAIN objs :
          /\ objs[p].isActive
          /\ obs[p].lastSeen = "in"
          /\ obs[p].rendered = 1

\* a frame callback of instance p is running and no listener has called
\* stop() in it
Running(p) == frame.viewer = p /\ frame.pc # "idle" /\ ~frame.stopped

\* C20: a frame callback fired on an active instance has scheduled exactly
\* one successor, a new one, when it comes to render, and renders once; if
\* stop() is not called in it the instance is then active with that one
\* callback scheduled.  Only stop() makes an instance inactive or leaves it
\* without a scheduled callback.  So an instance that stays active from some
\* moment on renders in a frame callback again and again, for ever.
C20_LoopPerpetuates ==
    /\ [](\A p \in DOMAIN objs :
            /\ (frame.pc = "idle" /\ objs[p].isActive)
                  => Cardinality(Pending(p)) = 1
            /\ Running(p) =>
                  /\ objs[p].isActive
                  /\ Cardinality(Pending(p)) = 1
                  /\ objs[p].animationId \in {c.id : c \in Pending(p)}
            /\ (Running(p) /\ lastOp.op = "frameBegin") =>
                  /\ obs[p].rendered = 0
                  /\ Pending(p) = {[id |-> nextRafId - 1, viewer |-> p]}
            /\ (Running(p) /\ lastOp.op = "frameRender") =>
                  obs[p].rendered = 1)
    /\ [][\A p \in DOMAIN objs :
            /\ (objs[p].isActive /\ ~objs'[p].isActive)
                  => lastOp'.op \in {"stop", "listenerStop"}
            /\ (Pending(p) # {} /\ {c \in rafCallbacks' : c.viewer = p} = {})
                  => lastOp'.op \in {"stop", "listenerStop"}
            /\ (frame.pc = "update" /\ frame'.pc = "idle") => FALSE]_vars
    /\ \A p \in Instances :
          <>[](objs[p].isActive) => []<><<FrameRender /\ frame.viewer = p>>_vars

\* a frame callback that a frame callback scheduled has just rendered
C20_Witness ==
    /\ lastOp.op = "frameRender"
    /\ ~frame.stopped
    /\ obs[frame.viewer].rendered = 1
    /\ objs[frame.viewer].isActive
    /\ Cardinality(Pending(frame.viewer)) = 1

\* the shapes _renderPlaceholder() chooses among
PlaceholderShapes == {"icosahedron", "torusKnot", "octahedron"}

\* C21: an instance whose configuration has no file path never calls the
\* loader and never has a load in flight; loadModel() on it, once initScene()
\* has returned, appends exactly one mesh, a placeholder shape, to the scene,
\* changes nothing else of the object, throws nothing, and its promise is
\* resolved when the call returns.
C21_PlaceholderLoad ==
    /\ [](\A p \in DOMAIN objs :
            objs[p].config.filePath = NoPath =>
                /\ obs[p].loaderCalls = 0
                /\ obs[p].loader = "none"
                /\ objs[p].load \in {"none", "resolved"})
    /\ [][\A p \in DOMAIN objs :
            (/\ lastOp'.op = "loadModel"
             /\ lastOp'.v = p
             /\ objs[p].config.filePath = NoPath)
            => /\ objs'[p].load = "resolved"
               /\ ~obs'[p].fault
               /\ obs'[p].loaderCalls = 0
               /\ Len(objs'[p].scene.meshes) = Len(objs[p].scene.meshes) + 1
               /\ \E kind \in PlaceholderShapes :
                     objs'[p] =
                        [objs[p] EXCEPT !.load = "resolved",
                                        !.scene.meshes = Append(@, Mesh(kind))]
               /\ rafCallbacks' = rafCallbacks]_vars

\* loadModel() has just returned on an instance that has no file path and
\* was rendering an empty scene
C21_Witness ==
    /\ lastOp.op = "loadModel"
    /\ objs[lastOp.v].config.filePath = NoPath
    /\ lastOp.pre.isActive
    /\ objs[lastOp.v].load = "resolved"
    /\ Len(objs[lastOp.v].scene.meshes) = 1
    /\ obs[lastOp.v].loaderCalls = 0

\* the shape kinds A, B, C of the ordinal indices 0, 1, 2, 3, 4, 5
ShapeCycle ==
    <<"icosahedron", "torusKnot", "octahedron",
      "icosahedron", "torusKnot", "octahedron">>

\* C22: the placeholder of an instance constructed with ordinal index i is
\* the shape that the cycle A, B, C, A, B, C has at i, whatever the color of
\* its configuration and whatever the instance had done when loadModel()
\* was called; A, B and C differ.
C22_PlaceholderByIndex ==
    /\ Cardinality({ShapeCycle[i] : i \in 1..PlaceholderKinds})
          = PlaceholderKinds
    /\ \A p \in DOMAIN objs :
          objs[p].load = "resolved" =>
              MeshKinds(p) =
                 <<ShapeCycle[(objs[p].index % Len(ShapeCycle)) + 1]>>

\* loadModel() has just returned on an active instance of ordinal index 5
\* that had rendered, and its placeholder is the third shape
C22_Witness ==
    /\ lastOp.op = "loadModel"
    /\ lastOp.pre.isActive
    /\ objs[lastOp.v].index = 5
    /\ nextRafId > 2
    /\ MeshKinds(lastOp.v) = <<"octahedron">>

\* C25: after a successful load the scene holds one mesh, the model, whose
\* uniform scale s satisfies s * d = 2.0 for the largest dimension d of the
\* geometry's bounding box, and no dimension of the box is scaled beyond
\* 2.0; for the box (4, 2, 1) the scale is 1/2.
C25_ModelScale ==
    \A p \in DOMAIN objs :
        obs[p].loader = "fulfilled" =>
            LET size == StlGeometry[objs[p].config.filePath]
                mesh == objs[p].scene.meshes[1]
            IN  /\ MeshKinds(p) = <<"model">>
                /\ mesh.scale[2] > 0
                /\ \E i \in 1..3 :
                      mesh.scale[1] * size[i] = TargetSize * mesh.scale[2]
                /\ \A i \in 1..3 :
                      mesh.scale[1] * size[i] <= TargetSize * mesh.scale[2]
                /\ size = <<4, 2, 1>> => mesh.scale = <<1, 2>>

\* the load of a geometry whose largest dimension is not its width has just
\* succeeded
C25_Witness ==
    /\ lastOp.op = "loadResolved"
    /\ obs[lastOp.v].loader = "fulfilled"
    /\ StlGeometry[objs[lastOp.v].config.filePath] = <<1, 3, 2>>
    /\ objs[lastOp.v].scene.meshes[1].scale = <<2, 3>>

\* C26: while no frame callback is in execution and no method is running,
\* an active instance has exactly one frame callback scheduled, the one
\* whose handle it stores, an inactive instance has none, and an instance
\* on which stop() has returned and start() was not called since stores no
\* handle.
C26_FramesMatchActive ==
    frame.pc = "idle" =>
        \A p \in DOMAIN objs :
            /\ objs[p].isActive =>
                  Pending(p) = {[id |-> objs[p].animationId, viewer |-> p]}
            /\ ~objs[p].isActive => Pending(p) = {}
            /\ obs[p].stopRet => objs[p].animationId = Null

\* a frame callback in which a listener called stop() has just returned, on
\* an instance that had rendered frames before
C26_Witness ==
    /\ lastOp.op = "frameEnd"
    /\ frame.pc = "idle"
    /\ frame.stopped
    /\ nextRafId > 2
    /\ ~objs[frame.viewer].isActive
    /\ Pending(frame.viewer) = {}
    /\ objs[frame.viewer].animationId = Null

\* the repositories of the cache entry, if there is one
Cached == IF cacheKey \in DOMAIN sessionStorage
          THEN sessionStorage[cacheKey].data ELSE <<>>

\* C23: a call of fetchGitHubRepos that finds a cache entry younger than
\* 5 minutes makes no request, returns the entry's data and leaves the entry
\* as it is; any other call makes exactly one request, and when that ends
\* with an ok response the entry becomes the response's repositories that
\* are not forks, in their order, with the time of that moment.  The cache
\* never holds a fork, and no call returns one.
C23_ReadThroughCache ==
    /\ [](/\ \A i \in DOMAIN Cached : ~Cached[i].fork
          /\ \A i \in DOMAIN gitCall.value : ~gitCall.value[i].fork
          /\ gitCall.pc \in {"awaiting", "rendered", "caught"} =>
                gitCall.requests = (IF gitCall.fresh THEN 0 ELSE 1)
          /\ cacheKey \in DOMAIN sessionStorage =>
                sessionStorage[cacheKey].timestamp <= now)
    /\ [][lastOp'.op = "contentLoaded" /\ lastOp'.v > 0 =>
            LET young == /\ cacheKey \in DOMAIN sessionStorage
                         /\ now - sessionStorage[cacheKey].timestamp
                               < 5 * 60 * 1000
            IN  /\ sessionStorage' = sessionStorage
                /\ young => /\ gitCall'.requests = 0
                            /\ gitCall'.pc = "rendered"
                            /\ gitCall'.value = sessionStorage[cacheKey].data
                /\ ~young => /\ gitCall'.requests = 1
                             /\ gitCall'.pc = "awaiting"]_vars
    /\ [][lastOp'.op = "response" /\ gitCall'.outcome.kind = "ok" =>
            /\ gitCall'.requests = 1
            /\ gitCall'.value = sessionStorage'[cacheKey].data
            /\ sessionStorage'[cacheKey].timestamp = now'
            /\ LET data == sessionStorage'[cacheKey].data
                   body == gitCall'.outcome.body
               IN  /\ \A i \in DOMAIN body :
                         ~body[i].fork =>
                             \E k \in DOMAIN data : data[k] = body[i]
                   /\ \A k \in DOMAIN data :
                         \E i \in DOMAIN body : data[k] = body[i]
                   /\ \A k, l \in DOMAIN data :
                         k < l => \E i, j \in DOMAIN body :
                                     /\ i < j
                                     /\ data[k] = body[i]
                                     /\ data[l] = body[j]]_vars

\* a document has just found an entry that is exactly 5 minutes old, made
\* its request, and the cache still holds the entry
C23_Witness ==
    /\ lastOp.op = "contentLoaded"
    /\ cacheKey \in DOMAIN sessionStorage
    /\ now - sessionStorage[cacheKey].timestamp = cacheTtl
    /\ gitCall.pc = "awaiting"
    /\ gitCall.requests = 1
    /\ Len(Cached) > 0

\* grid g of the document shows the loading state
Loading(g) ==
    g \in DOMAIN projectsDom.grids /\ projectsDom.grids[g].view = "loading"

\* C27: when the request ends otherwise than with an ok response and a
\* body, sessionStorage is left as it was and every grid of the document,
\* each of which showed the loading state, shows the error state; while the
\* request is in flight every grid shows the loading state; once the call
\* has ended, by a fresh cache, a success or a failure, no grid shows it;
\* and a grid that shows the loading state comes to show it no longer.
C27_FetchFailure ==
    /\ [][lastOp'.op = "response" /\ gitCall'.outcome.kind # "ok" =>
            /\ sessionStorage' = sessionStorage
            /\ gitCall'.pc = "caught"
            /\ gitCall'.shown = DOMAIN projectsDom.grids
            /\ \A g \in gitCall.shown :
                  /\ Loading(g)
                  /\ projectsDom'.grids[g].view = "error"
                  /\ projectsDom'.grids[g].children = <<>>]_vars
    /\ [](/\ gitCall.pc = "awaiting" =>
                /\ gitCall.shown # {}
                /\ \A g \in DOMAIN projectsDom.grids : Loading(g)
          /\ gitCall.pc \in {"rendered", "caught"} =>
                /\ gitCall.shown = DOMAIN projectsDom.grids
                /\ \A g \in gitCall.shown : ~Loading(g)
          /\ gitCall.pc = "caught" =>
                \A g \in gitCall.shown :
                    projectsDom.grids[g].view = "error"
          /\ (\E g \in 1..MaxGrids : Loading(g)) => gitCall.pc = "awaiting")
    /\ \A g \in 1..MaxGrids : Loading(g) ~> ~Loading(g)

\* the request of a document with two grids has just ended with a response
\* that is not ok, while the cache holds an entry that is too old
C27_Witness ==
    /\ lastOp.op = "response"
    /\ gitCall.outcome.kind = "notOk"
    /\ Len(Cached) > 0
    /\ Len(projectsDom.grids) = 2
    /\ \A g \in DOMAIN projectsDom.grids :
          projectsDom.grids[g].view = "error"

\* C24, as claimed: once the projects page has loaded, the fetch has
\* rendered the project cards and a filter button was clicked, the button
\* clicked last is the one active button, and each card of the grid is
\* hidden exactly if that button's filter is not 'all' and is not the card's
\* data-category.
C24_FilterWorks ==
    (/\ gitCall.pc = "rendered"
     /\ projectFilter.clicked # "none") =>
        /\ projectFilter.active = {projectFilter.clicked}
        /\ \A id \in queryProjectCards(projectsDom) :
              projectsDom.els[id].hidden =
                 (/\ projectFilter.clicked # "all"
                  /\ projectFilter.clicked # projectsDom.els[id].category)

\* C28: from a closed menu, whatever the clicks on the toggle button, on
\* nav links and outside, and whatever the debounced resizes, the toggle
\* button's active class, the menu's active class and aria-expanded agree;
\* a click on a nav link or outside leaves the menu closed, and a click on
\* the toggle button flips it.
C28_MenuStateAgrees ==
    /\ [](/\ navMenu.toggleActive = navMenu.menuActive
          /\ navMenu.ariaExpanded = ariaValue(navMenu.menuActive))
    /\ [][/\ lastOp'.op \in {"link", "outside"} => ~navMenu'.menuActive
          /\ lastOp'.op = "toggle" =>
                navMenu'.menuActive = ~navMenu.menuActive]_vars

\* the toggle button has opened the menu while a resize timer is pending
C28_Witness ==
    /\ lastOp.op = "toggle"
    /\ navMenu.menuActive
    /\ navMenu.toggleActive
    /\ navMenu.ariaExpanded = "true"
    /\ navMenu.timers # {}

C30_ButtonRestored ==
    /\ []((contactForm.listening /\ contactForm.inflight = {}) =>
             /\ ~contactForm.btn.disabled
             /\ contactForm.btn.textContent = MarkupForm.btn.textContent)
    /\ [][contactForm'.resets > contactForm.resets =>
             /\ lastOp'.op = "response"
             /\ contactForm'.outcome = "ok"]_vars

====
